---- MODULE Spec2Model ----
(***************************************************************************)
(* fgo_harvest: the partition/merge engine (chalicelib/recording.py), the  *)
(* run report identity (chalicelib/model.py) and the callers that drive    *)
(* the recorders (app.py, main.py).                                        *)
(*                                                                         *)
(* A run constructs one Recorder over one output directory, adds records,  *)
(* and saves.  The directory's files persist from run to run.              *)
(***************************************************************************)
EXTENDS Integers, Sequences, FiniteSets, TLC

(***************************************************************************)
(* Bounds of the model.                                                    *)
(***************************************************************************)
\* records the runs over one output directory receive in all
MaxAdds == 2
\* cap of a quest-list element's cumulative count
MaxCount == 3
\* saves that are interrupted
MaxCrashes == 1

(***************************************************************************)
(* Values.                                                                 *)
(***************************************************************************)
\* tweet_id: int | None -- the None of a report that has no tweet
NoTweet == -1

\* datetime, as year / month / day / second of the day
DT(y, m, d, s) == [y |-> y, m |-> m, d |-> d, s |-> s]
\* date
Date(y, m, d) == [y |-> y, m |-> m, d |-> d]

\* total order of datetimes (datetime.__lt__)
DtOrd(t) == ((t.y * 100 + t.m) * 100 + t.d) * 10 + t.s
\* total order of dates (date.__lt__)
DateOrd(d) == (d.y * 100 + d.m) * 100 + d.d

\* datetime.date()
DateOf(t) == Date(t.y, t.m, t.d)

\* datetime.isoformat(): a string, no longer a datetime
isoformat(t) == [iso |-> t]
\* datetime.fromisoformat()
fromisoformat(s) == s.iso

\* date.isoformat() "Y-M-D", kept as its "-"-separated parts
DateIso(d) == <<ToString(d.y), ToString(d.m), ToString(d.d)>>
\* date.strftime("%Y-%m") "Y-M", kept as its "-"-separated parts
MonthFmt(d) == <<ToString(d.y), ToString(d.m)>>

\* the numbers that occur in keys
Numerals == 0 .. 31 \cup {2000, 2023}
\* int(): the number a decimal string denotes
ParseInt(s) == CHOOSE n \in Numerals : ToString(n) = s
\* date.fromisoformat(key) for a key of three parts
DateFromIso(key) == Date(ParseInt(key[1]), ParseInt(key[2]), ParseInt(key[3]))
\* datetime.strptime(key, "%Y-%m").date() for a key of two parts
DateFromMonth(key) == Date(ParseInt(key[1]), ParseInt(key[2]), 1)

(***************************************************************************)
(* The quest catalog (freequest.Detector), as far as the recorders use it. *)
(***************************************************************************)
\* the static catalog: (chapter, place) -> quest id
freequest_db ==
    (<<"Fuyuki", "X-A">> :> "F001") @@ (<<"Sword", "Beginner">> :> "00a01")

\* Detector.is_freequest
is_freequest_db(chapter, place) == <<chapter, place>> \in DOMAIN freequest_db

\* the synthesized id of an event quest: a digest of chapter, place, year
EventQuestId(chapter, place, year) == "E:" \o chapter \o ":" \o place \o ":" \o ToString(year)

\* Detector.get_quest_id
get_quest_id(chapter, place, year) ==
    IF <<chapter, place>> \in DOMAIN freequest_db
    THEN freequest_db[<<chapter, place>>]
    ELSE EventQuestId(chapter, place, year)

(***************************************************************************)
(* model.RunReport                                                         *)
(***************************************************************************)
RunReport(rid, tid, who, ch, pl, rc, ts) ==
    [report_id |-> rid, tweet_id |-> tid, reporter |-> who, chapter |-> ch,
     place |-> pl, runcount |-> rc, timestamp |-> ts]

\* str(tweet_id)
StrTweetId(tid) == IF tid = NoTweet THEN "None" ELSE ToString(tid)

\* RunReport.get_id: report_id when it is truthy, else str(tweet_id)
get_id(r) == IF r.report_id # "" THEN r.report_id ELSE StrTweetId(r.tweet_id)

\* RunReport.is_freequest
is_freequest(r) == is_freequest_db(r.chapter, r.place)

\* RunReport.quest_id
quest_id(r) == get_quest_id(r.chapter, r.place, r.timestamp.y)

\* RunReport.as_dict
as_dict(r) ==
    [id |-> get_id(r), report_id |-> r.report_id, tweet_id |-> r.tweet_id,
     reporter |-> r.reporter, chapter |-> r.chapter, place |-> r.place,
     runcount |-> r.runcount, timestamp |-> r.timestamp,
     freequest |-> is_freequest(r), quest_id |-> quest_id(r)]

(***************************************************************************)
(* The source records the runs draw from: reports of the report API        *)
(* (report_id set, no tweet) and parsed tweets (tweet_id set, report_id    *)
(* empty).                                                                 *)
(***************************************************************************)
T1 == DT(2023, 6, 30, 1)
T2 == DT(2023, 6, 30, 2)
T3 == DT(2023, 7, 1, 1)

Reports ==
    { RunReport("1", NoTweet, "alice", "Fuyuki", "X-A", 10, T1),
      RunReport("",  1,       "alice", "Fuyuki", "X-A", 20, T2),
      RunReport("",  2,       "alice", "Fuyuki", "X-A", 30, T1),
      RunReport("a", NoTweet, "bob",   "Event",  "Final", 40, T3),
      RunReport("a", NoTweet, "bob",   "Event",  "Final", 50, T3) }

(***************************************************************************)
(* recording.UserListElement and recording.QuestListElement                *)
(***************************************************************************)
\* UserListElement.as_dict
UserListElement_as_dict(uid) == [id |-> uid]

\* Detector.get_quest_name, the reverse index entry of a quest id
get_quest_name(qid, chapter, place, year) ==
    IF <<chapter, place>> \in DOMAIN freequest_db /\ freequest_db[<<chapter, place>>] = qid
    THEN "[free] " \o chapter \o " " \o place
    ELSE "[" \o ToString(year) \o "] " \o chapter \o " " \o place

\* QuestListElement.__init__: since = latest = timestamp, count = 1
QuestListElement(qid, chapter, place, timestamp, isfq) ==
    [quest_id |-> qid, chapter |-> chapter, place |-> place,
     since |-> timestamp, latest |-> timestamp, is_freequest |-> isfq,
     count |-> 1,
     quest_name |-> get_quest_name(qid, chapter, place, timestamp.y)]

\* QuestListElement.__init__ raises ValueError('qid mismatch') when the id is
\* unknown to the reverse index and differs from the id of (chapter, place, year)
QuestListElementOk(qid, chapter, place, timestamp) ==
    qid = get_quest_id(chapter, place, timestamp.y)

\* a countup that takes the timestamp as latest whether or not it is later
countup_latestReset(e, timestamp) ==
    [e EXCEPT !.count = @ + 1, !.latest = timestamp]

\* a countup that widens latest and forgets the count
countup_noCount(e, timestamp) ==
    [e EXCEPT !.latest = IF DtOrd(timestamp) > DtOrd(@) THEN timestamp ELSE @]

\* QuestListElement.countup
countup(e, timestamp) ==
    [e EXCEPT !.count = @ + 1,
              !.latest = IF DtOrd(timestamp) > DtOrd(@) THEN timestamp ELSE @]

\* QuestListElement.as_dict
QuestListElement_as_dict(e) ==
    [id |-> e.quest_id, name |-> e.quest_name, is_freequest |-> e.is_freequest,
     chapter |-> e.chapter, place |-> e.place,
     since |-> isoformat(e.since), latest |-> isoformat(e.latest),
     count |-> e.count]

(***************************************************************************)
(* recording.ReportMerger                                                  *)
(***************************************************************************)
\* str.__lt__ on the ids that list artifacts are sorted by
StrRank ==
    ("1" :> 1) @@ ("2" :> 2) @@ ("E:Event:Final:2023" :> 3) @@ ("F001" :> 4)
    @@ ("None" :> 5) @@ ("a" :> 6) @@ ("alice" :> 7) @@ ("bob" :> 8)

\* ReportMerger.marged_list_sorter: the timestamp when there is one, else the id
marged_list_sorter(e) ==
    IF "timestamp" \in DOMAIN e THEN DtOrd(e.timestamp) ELSE StrRank[e.id]

\* the ids of a list of dicts
Ids(list) == { list[i].id : i \in 1 .. Len(list) }

\* d[id] = e on an insertion-ordered dict: replace in place, or append
DictPut(d, e) ==
    IF e.id \in Ids(d)
    THEN [i \in 1 .. Len(d) |-> IF d[i].id = e.id THEN e ELSE d[i]]
    ELSE Append(d, e)

\* d[id] on an insertion-ordered dict
DictGet(d, id) == d[CHOOSE i \in 1 .. Len(d) : d[i].id = id]

\* an index that loses the entries of the original
_make_index_empty(original) == <<>>

RECURSIVE _make_index(_)
\* ReportMerger._make_index: the dict id -> entry of a list of entries
_make_index(original) ==
    IF original = <<>> THEN <<>>
    ELSE DictPut(_make_index(SubSeq(original, 1, Len(original) - 1)),
                 original[Len(original)])

\* list.sort(key, reverse=True) inserts e behind every entry whose key is not
\* smaller: the sort is stable
InsertDesc(sorted, e) ==
    LET k == marged_list_sorter(e)
        before == { i \in 1 .. Len(sorted) : marged_list_sorter(sorted[i]) >= k }
        n == Cardinality(before)
    IN  SubSeq(sorted, 1, n) \o <<e>> \o SubSeq(sorted, n + 1, Len(sorted))

RECURSIVE SortDesc(_)
SortDesc(list) ==
    IF list = <<>> THEN <<>>
    ELSE InsertDesc(SortDesc(SubSeq(list, 1, Len(list) - 1)), list[Len(list)])

\* item.equals(origin): RunReport and QuestListElement compare their dict with
\* the original entry, UserListElement compares its uid with the entry's id
equals(item, origin) ==
    IF item.byid THEN item.id = origin.id ELSE item.dict = origin

RECURSIVE MergeLoop_addOnly(_, _, _)
\* a loop that adds the unknown ids and never overrides a known one
MergeLoop_addOnly(items, index, merged_dict) ==
    IF items = <<>> THEN merged_dict
    ELSE LET item == Head(items)
         IN  MergeLoop_addOnly(Tail(items), index,
                               IF item.id \notin Ids(index)
                               THEN DictPut(merged_dict, item.dict) ELSE merged_dict)

RECURSIVE MergeLoop(_, _, _)
\* the loop of ReportMerger.merge over additional_items
MergeLoop(items, index, merged_dict) ==
    IF items = <<>> THEN merged_dict
    ELSE LET item == Head(items)
             put == \/ item.id \notin Ids(index)
                    \/ ~equals(item, DictGet(index, item.id))
         IN  MergeLoop(Tail(items), index,
                       IF put THEN DictPut(merged_dict, item.dict) ELSE merged_dict)

\* ReportMerger.merge
merge(additional_items, original) ==
    SortDesc(MergeLoop(additional_items, _make_index(original), _make_index(original)))

(***************************************************************************)
(* twitter.parse_tweet and freequest.Detector.find_freequest.  A text is   *)
(* a list of lines, a line a list of tokens: the symbols the parser looks  *)
(* for, decimal numerals, names, and " ".                                  *)
(***************************************************************************)
\* the two rows _build_db gives a second spelling to
SpecialRows ==
    << [id |-> "OR1", chapter |-> "Orleans", place |-> "Thiers", quest |-> "QT"],
       [id |-> "SE1", chapter |-> "Septem", place |-> "Germania", quest |-> "QG"] >>

\* the catalog rows (freequest.json, built by build_freequest.py): a free
\* quest with a quest name, and a training ground, whose quest is ''
freequests ==
    SpecialRows \o
    << [id |-> "F001", chapter |-> "Fuyuki", place |-> "X-A", quest |-> "Q1"],
       [id |-> "00a01", chapter |-> "Sword", place |-> "Beginner", quest |-> ""] >>

\* freequest._build_chapter_db
freequest_chapter_db == { freequests[i].chapter : i \in 1 .. Len(freequests) }

\* freequest._build_place_index: place -> id, a later row replacing an earlier
freequest_place_index ==
    [p \in { freequests[i].place : i \in 1 .. Len(freequests) } |->
       freequests[CHOOSE i \in 1 .. Len(freequests) :
                    /\ freequests[i].place = p
                    /\ \A j \in i + 1 .. Len(freequests) : freequests[j].place # p].id]

\* freequest._build_reverse_index: id -> ' '.join([chapter, place, quest]),
\* kept as the three strings joined
quest_reverse_index ==
    [q \in { freequests[i].id : i \in 1 .. Len(freequests) } |->
       LET fq == freequests[CHOOSE i \in 1 .. Len(freequests) : freequests[i].id = q]
       IN  <<fq.chapter, fq.place, fq.quest>>]

\* freequest.ambigious_place and ambigious_quest, as far as the catalog goes
ambigious == {"Beginner"}

\* freequest.ambigious_quest
ambigious_quest == {"Castle"}

\* freequest.quests_in_same_place: the quests that share a chapter and a place
quests_in_same_place ==
    { <<"Okeanos", "Islands", "Cove">>, <<"Okeanos", "Islands", "HiddenIsle">> }

\* freequest.prior_in_same_place
prior_in_same_place == {"Cove"}

\* freequest.posterior_in_same_place
posterior_in_same_place == {"HiddenIsle"}

\* name.replace(<middle dot>, '') if the name holds a middle dot, else ''
alt(name) == IF name = "Y.B" THEN "YB" ELSE ""

\* d[k] = v for every k of keys
PutAll(d, keys, v) ==
    [k \in DOMAIN d \cup keys |-> IF k \in keys THEN v ELSE d[k]]

\* a key 'left<tab>right' of the index is the pair <<left, right>>
\* _build_db, the keys assigned when the row has a quest name
QuestKeys(fq) ==
    LET chapter == fq.chapter
        place == fq.place
        quest == fq.quest
        alt_place == alt(place)
        alt_quest == alt(quest)
    IN  {<<chapter, quest>>, <<chapter \o " " \o place, quest>>, <<place, quest>>}
        \cup (IF alt_quest # "" THEN {<<chapter, alt_quest>>} ELSE {})
        \cup (IF alt_place # ""
              THEN {<<chapter \o " " \o alt_place, quest>>, <<alt_place, quest>>}
                   \cup (IF alt_quest # ""
                         THEN {<<chapter \o " " \o alt_place, alt_quest>>,
                               <<alt_place, alt_quest>>}
                         ELSE {})
              ELSE {})
        \cup (IF quest \notin ambigious_quest
              THEN {<<quest, "">>}
                   \cup (IF alt_quest # "" THEN {<<alt_quest, "">>} ELSE {})
              ELSE {})

\* a loop body that registers the bare keys of every row and never raises
BuildRow_lastWins(acc, fq) ==
    LET d1 == IF fq.quest # "" THEN PutAll(acc.d, QuestKeys(fq), fq.id) ELSE acc.d
    IN  IF fq.place = fq.quest THEN [d |-> d1, error |-> ""]
        ELSE [d |-> PutAll(d1, {<<fq.chapter, fq.place>>, <<fq.place, "">>}, fq.id),
              error |-> ""]

\* _build_db, the body of the loop for one row
BuildRow(acc, fq) ==
    IF acc.error # "" THEN acc
    ELSE
    LET chapter == fq.chapter
        place == fq.place
        quest == fq.quest
        alt_place == alt(place)
        d1 == IF quest # "" THEN PutAll(acc.d, QuestKeys(fq), fq.id) ELSE acc.d
        d2 == PutAll(d1, {<<chapter, place>>}
                         \cup (IF alt_place # "" THEN {<<chapter, alt_place>>} ELSE {}),
                     fq.id)
        d3 == PutAll(d2, {<<place, "">>}
                         \cup (IF alt_place # "" THEN {<<alt_place, "">>} ELSE {}),
                     fq.id)
    IN  IF place = quest THEN [d |-> d1, error |-> ""]
        ELSE IF <<chapter, place, quest>> \notin quests_in_same_place
                \/ quest \in prior_in_same_place
        THEN IF <<chapter, place>> \in DOMAIN d1
             THEN [d |-> d1, error |-> "KeyError: has already been registered"]
             ELSE IF place \notin ambigious
             THEN IF <<place, "">> \in DOMAIN d2
                  THEN [d |-> d2, error |-> "KeyError: has already been registered"]
                  ELSE [d |-> d3, error |-> ""]
             ELSE [d |-> d2, error |-> ""]
        ELSE [d |-> d1, error |-> ""]

RECURSIVE BuildRows(_, _)
\* _build_db, the loop over the rows
BuildRows(acc, rows) ==
    IF rows = <<>> THEN acc
    ELSE BuildRows(BuildRow(acc, Head(rows)), Tail(rows))

\* freequest._build_db: the index, or the KeyError it raises
_build_db(rows) ==
    LET looped == BuildRows([d |-> <<>>, error |-> ""], rows)
        d == looped.d
    IN  IF looped.error # "" THEN looped
        ELSE IF <<"Orleans", "Thiers">> \notin DOMAIN d
             THEN [d |-> d, error |-> "KeyError: Orleans"]
        ELSE LET d4 == PutAll(d, {<<"Orleans", "Thiers(town)">>}, d[<<"Orleans", "Thiers">>])
             IN  IF <<"Septem", "Germania">> \notin DOMAIN d4
                 THEN [d |-> d4, error |-> "KeyError: Septem"]
                 ELSE [d |-> PutAll(d4, {<<"Septem", "Germania(forest)">>},
                                    d4[<<"Septem", "Germania">>]),
                       error |-> ""]

\* Detector.__init__: self.freequest_db = _build_db(freequests)
Detector_freequest_db == _build_db(freequests).d

\* an event quest id that numbers the cache entries instead of digesting the key
Detector_get_quest_id_numbered(db, eventquest_cache, chapter, place, year) ==
    IF <<chapter, place>> \in DOMAIN db
    THEN [hit |-> TRUE, qid |-> db[<<chapter, place>>]]
    ELSE IF <<place, "">> \in DOMAIN db
    THEN [hit |-> TRUE, qid |-> db[<<place, "">>]]
    ELSE IF <<chapter, place, year>> \in DOMAIN eventquest_cache
    THEN [hit |-> TRUE, qid |-> eventquest_cache[<<chapter, place, year>>]]
    ELSE [hit |-> FALSE,
          qid |-> "E:" \o ToString(Cardinality(DOMAIN eventquest_cache))]

\* Detector.get_quest_id up to its return or its digest: the static index by
\* 'chapter<tab>place', then by 'place<tab>', then the cache of event quests
Detector_get_quest_id(db, eventquest_cache, chapter, place, year) ==
    IF <<chapter, place>> \in DOMAIN db
    THEN [hit |-> TRUE, qid |-> db[<<chapter, place>>]]
    ELSE IF <<place, "">> \in DOMAIN db
    THEN [hit |-> TRUE, qid |-> db[<<place, "">>]]
    ELSE IF <<chapter, place, year>> \in DOMAIN eventquest_cache
    THEN [hit |-> TRUE, qid |-> eventquest_cache[<<chapter, place, year>>]]
    ELSE [hit |-> FALSE, qid |-> EventQuestId(chapter, place, year)]

RECURSIVE Join(_)
\* ''.join(tokens)
Join(tokens) == IF tokens = <<>> THEN "" ELSE Head(tokens) \o Join(Tail(tokens))

\* the lengths k with expr[:k] == name, for expr.startswith(name)
PrefixesEqual(expr, name) == { k \in 1 .. Len(expr) : Join(SubSeq(expr, 1, k)) = name }

\* str.split() of a reverse index entry: the non-empty words
SplitWords(words) == SelectSeq(words, LAMBDA w : w # "")

\* Detector.find_freequest: <<chapter, place>>, None, or the exception raised
find_freequest(expr) ==
    LET chapter_candidates == { ch \in freequest_chapter_db : PrefixesEqual(expr, ch) # {} }
        place_candidates == { pq \in DOMAIN freequest_place_index : PrefixesEqual(expr, pq) # {} }
    IN  IF Join(expr) \in ambigious THEN [kind |-> "None"]
        ELSE IF Cardinality(chapter_candidates) > 1 THEN [kind |-> "ValueError"]
        ELSE IF /\ Cardinality(chapter_candidates) = 1
                /\ LET ch == CHOOSE c \in chapter_candidates : TRUE
                       k == CHOOSE n \in PrefixesEqual(expr, ch) : TRUE
                   IN  is_freequest_db(ch, Join(SubSeq(expr, k + 1, Len(expr))))
             THEN LET ch == CHOOSE c \in chapter_candidates : TRUE
                      k == CHOOSE n \in PrefixesEqual(expr, ch) : TRUE
                  IN  [kind |-> "found", chapter |-> ch,
                       place |-> Join(SubSeq(expr, k + 1, Len(expr)))]
        ELSE IF Cardinality(place_candidates) = 1
             THEN LET pc == CHOOSE c \in place_candidates : TRUE
                      k == CHOOSE n \in PrefixesEqual(expr, pc) : TRUE
                      quest_candidate == Join(SubSeq(expr, k + 1, Len(expr)))
                      words == SplitWords(quest_reverse_index[freequest_place_index[pc]])
                  IN  \* _, place, quest = chapter_place_quest.split()
                      IF Len(words) # 3 THEN [kind |-> "ValueError"]
                      ELSE IF Join(expr) = words[2] \/ quest_candidate = words[3]
                           THEN [kind |-> "found", chapter |-> words[2], place |-> words[3]]
                           ELSE [kind |-> "None"]
        ELSE IF Cardinality(place_candidates) > 1 THEN [kind |-> "ValueError"]
        ELSE [kind |-> "None"]

\* the hash tag that ends the report part of a tweet
Tag == "#FGO"
\* the brackets of the header's location and the counter word of the run count
LBracket == "[["
RBracket == "]]"
Laps == "laps"

\* a token is a decimal numeral
IsNumeral(tok) == \E n \in Numerals : ToString(n) = tok

\* the numeral of n written with fullwidth digits
Fullwidth(n) == "fw" \o ToString(n)

\* [0-9\uFF10-\uFF19]+ matches the whole token
IsDigits(tok) == IsNumeral(tok) \/ \E n \in Numerals : Fullwidth(n) = tok

\* int() of a run of halfwidth or fullwidth digits
int(tok) ==
    IF IsNumeral(tok) THEN ParseInt(tok) ELSE CHOOSE n \in Numerals : Fullwidth(n) = tok

\* the positions of tok in line
Positions(line, tok) == { i \in 1 .. Len(line) : line[i] = tok }

\* str.strip() and str.split(' ') of a location: its words, each a list of tokens
RECURSIVE SplitSpace(_)
SplitSpace(loc) ==
    IF Positions(loc, " ") = {} THEN <<loc>>
    ELSE LET p == CHOOSE i \in Positions(loc, " ") : \A j \in Positions(loc, " ") : i <= j
         IN  <<SubSeq(loc, 1, p - 1)>> \o SplitSpace(SubSeq(loc, p + 1, Len(loc)))

RECURSIVE JoinSpace(_)
\* ' '.join(words)
JoinSpace(words) ==
    IF words = <<>> THEN ""
    ELSE IF Len(words) = 1 THEN Join(words[1])
    ELSE Join(words[1]) \o " " \o JoinSpace(Tail(words))

\* the TweetParseError kinds
TweetParseErrors ==
    {"HeaderNotFoundError", "HeaderEndBracketNotFoundError", "LocationNotFoundError",
     "RunCountNotFoundError", "DuplicatedItemsError", "RunCountZeroError"}

\* the header parse_tweet assembles: the last line with an opening bracket
\* before the tag, with the next line when that is a run count of its own
HeaderOf(lines) ==
    LET tags == { i \in 1 .. Len(lines) : Tag \in { lines[i][j] : j \in 1 .. Len(lines[i]) } }
        stop == IF tags = {} THEN Len(lines) + 1
                ELSE CHOOSE i \in tags : \A j \in tags : i <= j
        heads == { i \in 1 .. stop - 1 : Positions(lines[i], LBracket) # {} }
    IN  IF heads = {} THEN [found |-> FALSE, header |-> <<>>]
        ELSE LET h == CHOOSE i \in heads : \A j \in heads : j <= i
                 nxt == IF h + 1 <= stop - 1 THEN lines[h + 1] ELSE <<>>
             IN  [found |-> TRUE,
                  header |-> IF /\ Len(nxt) >= 2
                                /\ IsDigits(nxt[1]) /\ nxt[1] # "0"
                                /\ nxt[2] = Laps
                             THEN lines[h] \o nxt ELSE lines[h]]

\* chapter and place of the location's words
ChapterPlace(location_tokens) ==
    LET n == Len(location_tokens)
    IN  IF n = 2 THEN <<Join(location_tokens[1]), Join(location_tokens[2])>>
        ELSE IF location_tokens[n] # <<>> /\ location_tokens[n][1] = "("
                /\ location_tokens[n][Len(location_tokens[n])] = ")"
        THEN <<JoinSpace(SubSeq(location_tokens, 1, n - 2)),
               Join(location_tokens[n - 1]) \o Join(location_tokens[n])>>
        ELSE <<JoinSpace(SubSeq(location_tokens, 1, n - 1)), Join(location_tokens[n])>>

\* a parse that takes the first counter word of the header for the run count
parse_runcount_firstMarker(tweet, header, loc_end_pos, location_tokens) ==
    LET runs == Positions(header, Laps)
        runcount_pos == CHOOSE i \in runs : \A j \in runs : i <= j
        digits == header[runcount_pos - 1]
    IN  IF runs = {} THEN [kind |-> "RunCountNotFoundError"]
        ELSE IF loc_end_pos + 1 >= runcount_pos THEN [kind |-> "RunCountNotFoundError"]
        ELSE IF ~IsDigits(digits) THEN [kind |-> "RunCountNotFoundError"]
        ELSE IF int(digits) = 0 THEN [kind |-> "RunCountZeroError"]
        ELSE [kind |-> "RunReport",
              tweet_id |-> tweet.tweet_id, reporter |-> tweet.screen_name,
              chapter |-> ChapterPlace(location_tokens)[1],
              place |-> ChapterPlace(location_tokens)[2],
              runcount |-> int(digits), timestamp |-> tweet.created_at]

\* parse_tweet from the run count on: the digits that end right before the
\* last counter word (RE_RUNCOUNT is anchored at the end of the slice)
parse_runcount(tweet, header, loc_end_pos, location_tokens) ==
    LET runs == Positions(header, Laps)
        runcount_pos == CHOOSE i \in runs : \A j \in runs : j <= i
        digits == header[runcount_pos - 1]
    IN  IF runs = {} THEN [kind |-> "RunCountNotFoundError"]
        ELSE IF loc_end_pos + 1 >= runcount_pos THEN [kind |-> "RunCountNotFoundError"]
        ELSE IF ~IsDigits(digits) THEN [kind |-> "RunCountNotFoundError"]
        ELSE IF int(digits) = 0 THEN [kind |-> "RunCountZeroError"]
        ELSE [kind |-> "RunReport",
              tweet_id |-> tweet.tweet_id, reporter |-> tweet.screen_name,
              chapter |-> ChapterPlace(location_tokens)[1],
              place |-> ChapterPlace(location_tokens)[2],
              runcount |-> int(digits), timestamp |-> tweet.created_at]

\* parse_tweet from the location on: split on ' ', or ask find_freequest
parse_location(tweet, header, loc_end_pos, location) ==
    LET candidate == find_freequest(location)
    IN  IF Positions(location, " ") # {}
        THEN parse_runcount(tweet, header, loc_end_pos, SplitSpace(location))
        ELSE IF candidate.kind = "ValueError" THEN [kind |-> "ValueError"]
        ELSE parse_runcount(tweet, header, loc_end_pos,
                            IF candidate.kind = "found"
                            THEN << <<candidate.chapter>>, <<candidate.place>> >>
                            ELSE <<location, <<>> >>)

\* parse_tweet from the header line on
parse_header(tweet, h) ==
    LET header == h.header
        loc_start_pos == CHOOSE i \in Positions(header, LBracket) :
                            \A j \in Positions(header, LBracket) : i <= j
        ends == Positions(header, RBracket)
        loc_end_pos == CHOOSE i \in ends : \A j \in ends : i <= j
    IN  IF ~h.found THEN [kind |-> "HeaderNotFoundError"]
        ELSE IF ends = {} THEN [kind |-> "HeaderEndBracketNotFoundError"]
        ELSE parse_location(tweet, header, loc_end_pos,
                            SubSeq(header, loc_start_pos + 1, loc_end_pos - 1))

\* RE_ITEMTRAIL.sub('', s): s without a parenthesized group at its end
StripTrail(s) ==
    LET opens == { i \in 1 .. Len(s) - 2 :
                     /\ s[i] = "("
                     /\ \A j \in i + 1 .. Len(s) - 1 : s[j] \notin {"(", ")"} }
    IN  IF Len(s) >= 3 /\ s[Len(s)] = ")" /\ opens # {}
        THEN SubSeq(s, 1, (CHOOSE i \in opens : TRUE) - 1)
        ELSE s

\* the line ends with NaN, or with a digit once a trailing group is cut
IsItemLine(line) ==
    \/ Len(line) > 1 /\ line[Len(line)] = "NaN"
    \/ StripTrail(line) # <<>> /\ IsDigits(StripTrail(line)[Len(StripTrail(line))])

\* the lines parse_tweet keeps as item lines: after the first header line
\* and before the tag, not header lines themselves, not empty
ItemLines(lines) ==
    LET tags == { i \in 1 .. Len(lines) : Tag \in { lines[i][j] : j \in 1 .. Len(lines[i]) } }
        stop == IF tags = {} THEN Len(lines) + 1
                ELSE CHOOSE i \in tags : \A j \in tags : i <= j
        heads == { i \in 1 .. stop - 1 : Positions(lines[i], LBracket) # {} }
        first == CHOOSE i \in heads : \A j \in heads : i <= j
    IN  IF heads = {} THEN <<>>
        ELSE SelectSeq(SubSeq(lines, first + 1, stop - 1),
                       LAMBDA ln : /\ Positions(ln, LBracket) = {}
                                   /\ ln # <<>>
                                   /\ IsItemLine(ln))

RECURSIVE SplitDash(_)
\* line.strip().split('-')
SplitDash(line) ==
    IF Positions(line, "-") = {} THEN <<line>>
    ELSE LET p == CHOOSE i \in Positions(line, "-") : \A j \in Positions(line, "-") : i <= j
         IN  <<SubSeq(line, 1, p - 1)>> \o SplitDash(SubSeq(line, p + 1, Len(line)))

RECURSIVE items_with_counts(_)
\* the tokens of all item lines, in order
items_with_counts(lines) ==
    IF lines = <<>> THEN <<>>
    ELSE SplitDash(Head(lines)) \o items_with_counts(Tail(lines))

\* one turn of the token loop: the (item, count) it assigns, if any
ItemOf(token) ==
    LET t == StripTrail(token)
        n == Len(t)
    IN  IF token = <<>> THEN [some |-> FALSE, id |-> "", count |-> ""]
        ELSE IF token[Len(token)] = "NaN"
        THEN [some |-> TRUE, id |-> Join(SubSeq(token, 1, Len(token) - 1)), count |-> "NaN"]
        ELSE IF n >= 2 /\ IsDigits(t[n]) /\ ~IsDigits(t[n - 1])
        THEN [some |-> TRUE, id |-> Join(SubSeq(t, 1, n - 1)), count |-> t[n]]
        ELSE [some |-> FALSE, id |-> "", count |-> ""]

RECURSIVE item_dict(_, _)
\* the token loop: item_dict[item] = count, in insertion order
item_dict(d, tokens) ==
    IF tokens = <<>> THEN d
    ELSE item_dict(IF ItemOf(Head(tokens)).some
                   THEN DictPut(d, [id |-> ItemOf(Head(tokens)).id,
                                    count |-> ItemOf(Head(tokens)).count])
                   ELSE d,
                   Tail(tokens))

\* RunReport(..., items=item_dict, ...): the parse so far with its items
with_items(parsed, lines) ==
    IF parsed.kind = "RunReport"
    THEN [kind |-> "RunReport",
          tweet_id |-> parsed.tweet_id, reporter |-> parsed.reporter,
          chapter |-> parsed.chapter, place |-> parsed.place,
          runcount |-> parsed.runcount, timestamp |-> parsed.timestamp,
          items |-> item_dict(<<>>, items_with_counts(lines))]
    ELSE parsed

\* twitter.parse_tweet: the RunReport, or the exception raised
parse_tweet(tweet) ==
    with_items(parse_header(tweet, HeaderOf(tweet.full_text)), ItemLines(tweet.full_text))

(***************************************************************************)
(* The state: one output directory and the Recorder of the current run.    *)
(***************************************************************************)
VARIABLES
    rule,               \* the Recorder's partitioning rule
    rebuild,            \* PartitioningRuleByQuestList.rebuild
    criteria,           \* the skip-save rule's criteria date
    partitions,         \* Recorder.partitions: key -> list of elements
    pkeys,              \* the keys of Recorder.partitions, in insertion order
    quest_dict,         \* PartitioningRuleByQuestList.quest_dict, insertion-ordered
    existing_reporters, \* PartitioningRuleByUserList.existing_reporters
    unmatch,            \* unmatch_users / unmatch_quests of the skip-save rule
    counter,            \* Recorder.counter
    storage,            \* the files of the output directory: key -> format -> content
    phase,              \* "ready": constructed, not yet saved; "saved"
    input,              \* the records added to the current Recorder, in order
    rerun,              \* the current Recorder was fed the previous run's records
    prev,               \* the directory as it was when the last save began
    writes,             \* the (key, format) artifacts the last save wrote
    lastSave,           \* flags and outcome of the last save
    prevSave,           \* flags and outcome of the save the current run repeats
    received,           \* the number of records the runs have received so far
    crashes,            \* the number of saves that were interrupted
    m_additional,       \* ReportMerger.merge: the additional_items of the last call
    m_original,         \* ReportMerger.merge: the original of the last call
    m_merged,           \* ReportMerger.merge: the list the last call returned
    readall,            \* TweetRepository: the stored tweets and the frame of readall
    detector,           \* freequest.Detector instances and the workers that call them
    catalog,            \* freequest._build_db: the rows given and the outcome
    rebuilder,          \* app.rebuild_outputs: the pool, its tasks and the parent
    hrun,               \* PartitioningRuleBy1HRun.dispatch: the last call
    skipcall,           \* SkipSaveRuleByDate.match: the last call
    parser,             \* twitter.parse_tweet: the last call
    errorpage,          \* ErrorPageRecorder: the added errors and the error directory
    builder,            \* main.command_build: the report server and the runs
    datefile,           \* merging.merge_into_datefile and a concurrent writer
    skipsave,           \* a Recorder of render_all under SkipSaveRuleByDate
    userdir             \* the user output directory of render_all

vars == <<rule, rebuild, criteria, partitions, pkeys, quest_dict,
          existing_reporters, unmatch, counter, storage, phase, input, rerun,
          prev, writes, lastSave, prevSave, received, crashes,
          m_additional, m_original, m_merged,
          readall, detector, catalog, rebuilder, hrun, skipcall,
          parser, errorpage, builder, datefile, skipsave, userdir>>

\* the variables of the Recorder runs
recorderVars ==
    <<rule, rebuild, criteria, partitions, pkeys, quest_dict,
      existing_reporters, unmatch, counter, storage, phase, input, rerun,
      prev, writes, lastSave, prevSave, received, crashes>>

\* the variables of a bare ReportMerger
mergeVars == <<m_additional, m_original, m_merged>>

\* the variables a Recorder run leaves alone
sideVars == <<mergeVars, readall, detector, catalog, rebuilder, hrun, skipcall,
              parser, errorpage, builder, datefile, skipsave, userdir>>

\* the variables of the posts, error pages, build runs and date files
lateVars == <<parser, errorpage, builder, datefile, skipsave, userdir>>

\* the variables of the recorder runs and of the catalog, reader and pool
earlyVars ==
    <<recorderVars, mergeVars, readall, detector, catalog, rebuilder, hrun, skipcall>>

\* the partitioning rules
ReportRules == {"date", "month", "user", "quest"}
ListRules == {"userlist", "questlist"}
Rules == ReportRules \cup ListRules

\* the formats each caller configures: OutputFormat.JSON first
Formats(r) == IF r \in ListRules THEN <<"json", "html">> ELSE <<"json", "csv", "html">>

\* the skip-save rule each caller pairs with the partitioning rule
SkipRuleOf(r) ==
    CASE r \in {"date", "month"} -> "SkipSaveRuleByDate"
      [] r = "user"              -> "SkipSaveRuleByDateAndUser"
      [] r = "quest"             -> "SkipSaveRuleByDateAndQuest"
      [] OTHER                   -> "SkipSaveRuleNeverMatch"

\* the criteria dates the callers pass: date(2000, 1, 1) and a recent horizon
Criterias == { Date(2000, 1, 1), Date(2023, 7, 1) }

\* no save yet
NoSave == [force |-> FALSE, ignore_original |-> FALSE, done |-> FALSE, any |-> FALSE]

(***************************************************************************)
(* Partitioning rules: dispatch                                            *)
(***************************************************************************)
\* partitions[key].append(e), creating the list when the key is new
AppendTo(parts, key, e) ==
    IF key \in DOMAIN parts
    THEN [parts EXCEPT ![key] = Append(@, e)]
    ELSE parts @@ (key :> <<e>>)

\* the partition key of a report under the per-record rules
\* (PartitioningRuleByDate / ByMonth / ByUser / ByQuest .dispatch)
KeyOf(r, report) ==
    CASE r = "date"  -> DateIso(DateOf(report.timestamp))
      [] r = "month" -> MonthFmt(DateOf(report.timestamp))
      [] r = "user"  -> <<report.reporter>>
      [] r = "quest" -> <<quest_id(report)>>

\* the key of the single partition of the list rules
AllKey == <<"all">>

\* the quest ids of quest_dict
QuestIds(qd) == { qd[i].quest_id : i \in 1 .. Len(qd) }
\* quest_dict[qid]
QuestGet(qd, qid) == qd[CHOOSE i \in 1 .. Len(qd) : qd[i].quest_id = qid]

\* a dispatch that counts up and never widens since
QuestListDispatchDict_noSince(qd, report) ==
    LET e == QuestListElement(quest_id(report), report.chapter, report.place,
                              report.timestamp, is_freequest(report))
    IN  IF e.quest_id \notin QuestIds(qd)
        THEN Append(qd, e)
        ELSE [i \in 1 .. Len(qd) |->
                IF qd[i].quest_id # e.quest_id THEN qd[i]
                ELSE countup(qd[i], e.latest)]

\* PartitioningRuleByQuestList.dispatch, its effect on quest_dict
QuestListDispatchDict(qd, report) ==
    LET e == QuestListElement(quest_id(report), report.chapter, report.place,
                              report.timestamp, is_freequest(report))
    IN  IF e.quest_id \notin QuestIds(qd)
        THEN Append(qd, e)
        ELSE [i \in 1 .. Len(qd) |->
                IF qd[i].quest_id # e.quest_id THEN qd[i]
                ELSE countup(
                       IF DtOrd(e.since) < DtOrd(qd[i].since)
                       THEN [qd[i] EXCEPT !.since = e.since] ELSE qd[i],
                       e.latest)]

\* PartitioningRuleByQuestList.dispatch, its effect on partitions: the first
\* dispatch copies every element of quest_dict, later ones append new entries
QuestListDispatchParts(parts, qd, report) ==
    LET qid == quest_id(report)
        qd2 == QuestListDispatchDict(qd, report)
    IN  IF AllKey \notin DOMAIN parts
        THEN AllKey :> [i \in 1 .. Len(qd2) |-> qd2[i].quest_id]
        ELSE IF qid \notin QuestIds(qd)
             THEN [parts EXCEPT ![AllKey] = Append(@, qid)]
             ELSE parts

\* PartitioningRuleByUserList.dispatch: one element per reporter not seen yet
UserListDispatchParts(parts, seen, report) ==
    IF report.reporter \in seen THEN parts
    ELSE AppendTo(parts, AllKey, report.reporter)

\* partitioningRule.dispatch(partitions, report)
DispatchParts(r, parts, qd, seen, report) ==
    CASE r \in ReportRules -> AppendTo(parts, KeyOf(r, report), report)
      [] r = "userlist"    -> UserListDispatchParts(parts, seen, report)
      [] r = "questlist"   -> QuestListDispatchParts(parts, qd, report)

\* a scan that leaves out the records dated on the criteria itself
ScanReport_strictAfter(r, um, crit, report) ==
    IF DateOrd(DateOf(report.timestamp)) > DateOrd(crit)
    THEN CASE r = "user"  -> um \cup {<<report.reporter>>}
           [] r = "quest" -> um \cup {<<quest_id(report)>>}
           [] OTHER       -> um
    ELSE um

\* skipSaveRule.scan_report(report): the users / quests with a report on or
\* after the criteria date
ScanReport(r, um, crit, report) ==
    IF DateOrd(DateOf(report.timestamp)) >= DateOrd(crit)
    THEN CASE r = "user"  -> um \cup {<<report.reporter>>}
           [] r = "quest" -> um \cup {<<quest_id(report)>>}
           [] OTHER       -> um
    ELSE um

\* the state of a Recorder after add(report)
AddOne(st, report) ==
    LET parts2 == DispatchParts(st.rule, st.partitions, st.quest_dict,
                                st.existing_reporters, report)
    IN  [st EXCEPT
           !.partitions = parts2,
           !.pkeys = IF DOMAIN parts2 = DOMAIN st.partitions THEN @
                     ELSE Append(@, CHOOSE k \in DOMAIN parts2 : k \notin DOMAIN st.partitions),
           !.quest_dict = IF st.rule = "questlist"
                          THEN QuestListDispatchDict(@, report) ELSE @,
           !.existing_reporters = IF st.rule = "userlist"
                                  THEN @ \cup {report.reporter} ELSE @,
           !.unmatch = ScanReport(st.rule, @, st.criteria, report),
           !.counter = @ + 1]

RECURSIVE AddAll(_, _)
\* Recorder.add_all
AddAll(st, reports) ==
    IF reports = <<>> THEN st ELSE AddAll(AddOne(st, Head(reports)), Tail(reports))

(***************************************************************************)
(* Storage and JSON                                                        *)
(***************************************************************************)
\* fileStorage.get_as_text(key.fmt), parsed as a list: an absent file is ''
FileOf(st, key, fmt) == IF key \in DOMAIN st THEN st[key][fmt] ELSE <<>>

\* json.dumps(default=json_serialize_helper) of one dict: a datetime value
\* is written as its isoformat() string
DumpEntry(d) ==
    IF "timestamp" \in DOMAIN d THEN [d EXCEPT !.timestamp = isoformat(@)] ELSE d

\* JSONPageProcessor.dump
JsonDumps(list) == [i \in 1 .. Len(list) |-> DumpEntry(list[i])]

\* Recorder._load_hook
Recorder_load_hook(d) ==
    IF "timestamp" \in DOMAIN d THEN [d EXCEPT !.timestamp = fromisoformat(@)] ELSE d

\* Recorder._get_original_json
get_original_json(st, key) ==
    LET text == FileOf(st, key, "json")
    IN  [i \in 1 .. Len(text) |-> Recorder_load_hook(text[i])]

\* processor.dump(merged_reports): what a format's artifact holds
Render(fmt, merged_reports) ==
    IF fmt = "json" THEN JsonDumps(merged_reports) ELSE merged_reports

\* the _load_hook of PartitioningRuleByQuestList.setup
\* a hook that leaves latest as the string it was saved as
QuestList_load_hook_sinceOnly(d) == [d EXCEPT !.since = fromisoformat(@)]

\* PartitioningRuleByQuestList.setup._load_hook
QuestList_load_hook(d) ==
    [d EXCEPT !.since = fromisoformat(@), !.latest = fromisoformat(@)]

\* a setup that loads nothing
setup_noLoad(rb, st) == <<>>

\* PartitioningRuleByQuestList.setup: the quest_dict loaded from all.json,
\* empty when rebuilding
setup(rb, st) ==
    IF rb THEN <<>>
    ELSE LET text == FileOf(st, AllKey, "json")
         IN  [i \in 1 .. Len(text) |->
                LET q == QuestList_load_hook(text[i])
                IN  [QuestListElement(q.id, q.chapter, q.place, q.since, q.is_freequest)
                       EXCEPT !.latest = q.latest, !.count = q.count]]

\* setup does not raise: every stored element passes QuestListElement.__init__
setupOk(rb, st) ==
    rb \/ \A i \in 1 .. Len(FileOf(st, AllKey, "json")) :
            LET q == QuestList_load_hook(FileOf(st, AllKey, "json")[i])
            IN  QuestListElementOk(q.id, q.chapter, q.place, q.since)

(***************************************************************************)
(* Skip-save rules: match                                                  *)
(***************************************************************************)
\* SkipSaveRuleByDate.match
SkipSaveRuleByDate_match(crit, key) ==
    CASE Len(key) = 3 -> DateOrd(DateFromIso(key)) < DateOrd(crit)
      [] Len(key) = 2 -> DateOrd(DateFromMonth(key)) < DateOrd(crit)
      [] OTHER        -> FALSE

\* SkipSaveRuleByDateAndUser.match / SkipSaveRuleByDateAndQuest.match
SkipSaveRuleByDateAnd_match(um, key) == key \notin um

\* skipSaveRule.match(key)
match(r, crit, um, key) ==
    CASE SkipRuleOf(r) = "SkipSaveRuleByDate" -> SkipSaveRuleByDate_match(crit, key)
      [] SkipRuleOf(r) \in {"SkipSaveRuleByDateAndUser", "SkipSaveRuleByDateAndQuest"}
                                              -> SkipSaveRuleByDateAnd_match(um, key)
      [] OTHER                                -> FALSE

(***************************************************************************)
(* Recorder                                                                *)
(***************************************************************************)
\* Recorder.__init__, with the setup of a stateful partitioning rule
Recorder(r, rb, crit, st) ==
    [rule |-> r, criteria |-> crit, partitions |-> <<>>, pkeys |-> <<>>,
     quest_dict |-> IF r = "questlist" THEN setup(rb, st) ELSE <<>>,
     existing_reporters |-> {}, unmatch |-> {}, counter |-> 0]

\* the Recorder of the current run
Self ==
    [rule |-> rule, criteria |-> criteria, partitions |-> partitions,
     pkeys |-> pkeys, quest_dict |-> quest_dict,
     existing_reporters |-> existing_reporters, unmatch |-> unmatch,
     counter |-> counter]

\* the elements of a partition as merge sees them: get_id(), as_dict() and
\* the kind of equals()
Items(rec, key) ==
    LET elems == rec.partitions[key]
    IN  [i \in 1 .. Len(elems) |->
           CASE rec.rule \in ReportRules ->
                  [id |-> get_id(elems[i]), dict |-> as_dict(elems[i]), byid |-> FALSE]
             [] rec.rule = "userlist" ->
                  [id |-> elems[i], dict |-> UserListElement_as_dict(elems[i]), byid |-> TRUE]
             [] rec.rule = "questlist" ->
                  [id |-> elems[i],
                   dict |-> QuestListElement_as_dict(QuestGet(rec.quest_dict, elems[i])),
                   byid |-> FALSE]]

\* the merged list Recorder.save computes for one partition
MergedOf(rec, st, ignore_original, key) ==
    merge(Items(rec, key), IF ignore_original THEN <<>> ELSE get_original_json(st, key))

\* a turn that never consults the skip-save rule
PartitionWrites_noSkip(rec, st, force, ignore_original, key) ==
    IF Len(rec.partitions[key]) = 0
    THEN <<>>
    ELSE LET original == IF ignore_original THEN <<>> ELSE get_original_json(st, key)
             merged_reports == merge(Items(rec, key), original)
         IN  IF force \/ merged_reports # original
             THEN [i \in 1 .. Len(Formats(rec.rule)) |->
                     [key |-> key, fmt |-> Formats(rec.rule)[i],
                      content |-> Render(Formats(rec.rule)[i], merged_reports)]]
             ELSE <<>>

\* one partition's turn in the loop of Recorder.save: the artifacts it writes
PartitionWrites(rec, st, force, ignore_original, key) ==
    IF Len(rec.partitions[key]) = 0 \/ match(rec.rule, rec.criteria, rec.unmatch, key)
    THEN <<>>
    ELSE LET original == IF ignore_original THEN <<>> ELSE get_original_json(st, key)
             merged_reports == merge(Items(rec, key), original)
         IN  IF force \/ merged_reports # original
             THEN [i \in 1 .. Len(Formats(rec.rule)) |->
                     [key |-> key, fmt |-> Formats(rec.rule)[i],
                      content |-> Render(Formats(rec.rule)[i], merged_reports)]]
             ELSE <<>>

RECURSIVE SaveWrites(_, _, _, _, _)
\* Recorder.save: the artifacts it writes, in order
SaveWrites(rec, st, force, ignore_original, keys) ==
    IF keys = <<>> THEN <<>>
    ELSE PartitionWrites(rec, st, force, ignore_original, Head(keys))
         \o SaveWrites(rec, st, force, ignore_original, Tail(keys))

\* fileStorage.get_output_stream(path) ... close_output_stream: one file replaced
PutFile(st, w) ==
    IF w.key \in DOMAIN st
    THEN [st EXCEPT ![w.key][w.fmt] = w.content]
    ELSE st @@ (w.key :> [f \in {"json", "csv", "html"} |->
                            IF f = w.fmt THEN w.content ELSE <<>>])

RECURSIVE PutFiles(_, _)
PutFiles(st, ws) ==
    IF ws = <<>> THEN st ELSE PutFiles(PutFile(st, Head(ws)), Tail(ws))

(***************************************************************************)
(* The callers of the quest-list Recorder                                  *)
(***************************************************************************)
\* app.render_quest_contents: PartitioningRuleByQuestList(ignore_original),
\* save(force=True, ignore_original=ignore_original)
render_quest_contents(ignore_original) ==
    [rebuild |-> ignore_original, force |-> TRUE, ignore_original |-> ignore_original]

\* main.render_all: PartitioningRuleByQuestList(rebuild),
\* save(ignore_original=rebuild), force left at its default
render_all(rb) ==
    [rebuild |-> rb, force |-> FALSE, ignore_original |-> rb]

\* the configurations the callers run the quest-list Recorder in
QuestListCallers ==
    { render_quest_contents(b) : b \in BOOLEAN } \cup { render_all(b) : b \in BOOLEAN }

(***************************************************************************)
(* The callers and functions beside the Recorder runs, before any call     *)
(***************************************************************************)
\* no tweet stored, readall not called
ReadallIdle ==
    [stored |-> <<>>, status |-> "idle", pos |-> 0, reports |-> <<>>,
     parseErrorTweets |-> <<>>, id_cache |-> {}, report |-> [kind |-> "unbound"],
     error |-> ""]

\* the Detector instances: freequest.defaultDetector and one a test builds
Instances == {"defaultDetector", "detector"}

\* the threads of the executor that read quest ids
Threads == {"date", "quest"}

\* a thread between two reports
ThreadIdle ==
    [pc |-> "idle", inst |-> "", chapter |-> "", place |-> "", year |-> 0,
     quest_id |-> "", qid |-> "", quest_name |-> "", retry |-> FALSE]

\* Detector.__init__: an empty cache; the reverse index holds the catalog
\* (quest_reverse_index), its later entries are kept apart
DetectorIdle ==
    [eventquest_cache |-> [i \in Instances |-> <<>>],
     quest_reverse_index |-> [i \in Instances |-> <<>>],
     thread |-> [t \in Threads |-> ThreadIdle],
     issued |-> {}]
\* a catalog being put together, before Detector(freequests) is built from it
CatalogIdle ==
    [rows |-> SpecialRows, status |-> "idle", d |-> <<>>, error |-> "",
     lookup |-> [chapter |-> "", place |-> "", qid |-> ""]]
\* the entries of a list
Range(list) == { list[i] : i \in 1 .. Len(list) }

\* the view tasks of rebuild_outputs, in the order they are submitted
Views == <<"date", "user", "quest", "month", "errors">>

\* rebuild_outputs not yet invoked
RebuilderIdle ==
    [pc |-> "idle", skip |-> {}, next |-> 1,
     task |-> [v \in Range(Views) |-> "none"], completed |-> <<>>,
     done |-> {}, not_done |-> {}]
\* no PartitioningRuleBy1HRun built yet
HRunIdle ==
    [status |-> "idle", start_day |-> 0, partitions |-> <<>>, dispatched |-> 0,
     last |-> [target |-> 0, tagged |-> FALSE, key |-> <<>>]]
\* SkipSaveRuleByDate.match not yet called
SkipCallIdle ==
    [status |-> "idle", criteria |-> Date(2000, 1, 1), key |-> <<>>,
     outcome |-> [kind |-> "none", value |-> FALSE]]

\* parse_tweet not yet called
ParserIdle ==
    [status |-> "idle", outcome |-> [kind |-> "none"],
     tweet |-> [tweet_id |-> 0, screen_name |-> "", full_text |-> <<>>,
                created_at |-> DT(2000, 1, 1, 0)]]
\* no ErrorPageRecorder yet
ErrorPageIdle ==
    [status |-> "idle", errors |-> <<>>, json |-> <<>>, html |-> <<>>,
     before |-> <<>>, writes |-> {}, force |-> FALSE, ignore_original |-> FALSE]
\* command_build not yet run
BuilderIdle ==
    [status |-> "idle", server |-> <<>>, storage |-> <<>>, observed |-> {}, builds |-> 0,
     last |-> [any |-> FALSE, report_id |-> "", timestamp |-> DT(2000, 1, 1, 0)]]
\* merge_into_datefile not yet called
DateFileIdle ==
    [pc |-> "idle",
     parts |-> [k \in {"101500", "183000"} |-> IF k = "101500" THEN 1 .. 6 ELSE 7 .. 12],
     date |-> [exists |-> FALSE, tweets |-> {}],
     streams |-> <<>>, merged |-> {}, list |-> <<>>, deleted |-> {},
     w_pc |-> "idle", w_key |-> "", w_loaded |-> {}, w_tweets |-> {}, appended |-> 0]
\* no Recorder of render_all yet
SkipSaveIdle ==
    [status |-> "idle", rule |-> "", criteria |-> 1, partitions |-> <<>>,
     added |-> 0, skipped |-> {}, saved |-> {}]
\* the user output directory not yet written
UserDirIdle ==
    [status |-> "idle", reports |-> <<>>, dir |-> <<>>, clash |-> {}, runs |-> 0]

(***************************************************************************)
(* Actions                                                                 *)
(***************************************************************************)
\* the counts stay within the cap of the model
WithinCap(rec) == \A i \in 1 .. Len(rec.quest_dict) : rec.quest_dict[i].count <= MaxCount

\* the variables of the Recorder take the fields of rec
Becomes(rec) ==
    /\ rule' = rec.rule
    /\ criteria' = rec.criteria
    /\ partitions' = rec.partitions
    /\ pkeys' = rec.pkeys
    /\ quest_dict' = rec.quest_dict
    /\ existing_reporters' = rec.existing_reporters
    /\ unmatch' = rec.unmatch
    /\ counter' = rec.counter

\* an empty output directory and a freshly constructed Recorder
Init ==
    /\ rule \in Rules
    /\ rebuild \in (IF rule = "questlist" THEN BOOLEAN ELSE {FALSE})
    /\ criteria \in Criterias
    /\ partitions = <<>>
    /\ pkeys = <<>>
    /\ quest_dict = <<>>
    /\ existing_reporters = {}
    /\ unmatch = {}
    /\ counter = 0
    /\ storage = <<>>
    /\ phase = "ready"
    /\ input = <<>>
    /\ rerun = FALSE
    /\ prev = <<>>
    /\ writes = {}
    /\ lastSave = NoSave
    /\ prevSave = NoSave
    /\ received = 0
    /\ crashes = 0
    /\ m_additional = <<>>
    /\ m_original = <<>>
    /\ m_merged = <<>>
    /\ readall = ReadallIdle
    /\ detector = DetectorIdle
    /\ catalog = CatalogIdle
    /\ rebuilder = RebuilderIdle
    /\ hrun = HRunIdle
    /\ skipcall = SkipCallIdle
    /\ parser = ParserIdle
    /\ errorpage = ErrorPageIdle
    /\ builder = BuilderIdle
    /\ datefile = DateFileIdle
    /\ skipsave = SkipSaveIdle
    /\ userdir = UserDirIdle

\* Recorder.add(report)
Add(report) ==
    /\ phase = "ready"
    /\ ~rerun
    /\ received < MaxAdds
    /\ WithinCap(AddOne(Self, report))
    /\ Becomes(AddOne(Self, report))
    /\ input' = Append(input, report)
    /\ received' = received + 1
    /\ UNCHANGED <<rebuild, storage, phase, rerun, prev, writes, lastSave, prevSave, crashes>>
    /\ UNCHANGED sideVars

\* the loop of Recorder.save, as far as its first n artifact writes
SaveUpTo(force, ignore_original, n) ==
    /\ phase = "ready"
    /\ LET ws == SaveWrites(Self, storage, force, ignore_original, pkeys)
       IN  /\ n <= Len(ws)
           /\ storage' = PutFiles(storage, SubSeq(ws, 1, n))
           /\ writes' = { <<ws[i].key, ws[i].fmt>> : i \in 1 .. n }
           /\ lastSave' = [force |-> force, ignore_original |-> ignore_original,
                           done |-> (n = Len(ws)), any |-> TRUE]
    /\ prev' = storage
    /\ phase' = "saved"
    /\ UNCHANGED <<rule, rebuild, criteria, partitions, pkeys, quest_dict,
                   existing_reporters, unmatch, counter, input, rerun, prevSave,
                   received>>
    /\ UNCHANGED sideVars

\* Recorder.save(force, ignore_original)
Save(force, ignore_original) ==
    /\ SaveUpTo(force, ignore_original,
                Len(SaveWrites(Self, storage, force, ignore_original, pkeys)))
    /\ UNCHANGED crashes

\* Recorder.save(force, ignore_original), interrupted after n artifact writes
Crash(force, ignore_original, n) ==
    /\ crashes < MaxCrashes
    /\ n < Len(SaveWrites(Self, storage, force, ignore_original, pkeys))
    /\ SaveUpTo(force, ignore_original, n)
    /\ crashes' = crashes + 1

\* the next run: a new Recorder over the same directory
NewRecorder(rb, crit) ==
    /\ phase = "saved"
    /\ rule = "questlist" \/ ~rb
    /\ rule = "questlist" => setupOk(rb, storage)
    /\ Becomes(Recorder(rule, rb, crit, storage))
    /\ rebuild' = rb
    /\ phase' = "ready"
    /\ input' = <<>>
    /\ rerun' = FALSE
    /\ prev' = <<>>
    /\ writes' = {}
    /\ lastSave' = NoSave
    /\ prevSave' = NoSave
    /\ UNCHANGED <<storage, received, crashes>>
    /\ UNCHANGED sideVars

\* the same run repeated: a new Recorder of the same configuration,
\* add_all of the same records
Rerun ==
    /\ phase = "saved"
    /\ rule = "questlist" => setupOk(rebuild, storage)
    /\ LET rec == AddAll(Recorder(rule, rebuild, criteria, storage), input)
       IN  /\ WithinCap(rec)
           /\ Becomes(rec)
    /\ phase' = "ready"
    /\ rerun' = TRUE
    /\ prev' = <<>>
    /\ writes' = {}
    /\ lastSave' = NoSave
    /\ prevSave' = lastSave
    /\ UNCHANGED <<rebuild, storage, input, received, crashes>>
    /\ UNCHANGED sideVars

\* the most artifacts one save writes
MaxWrites == MaxAdds * 3

Next ==
    \/ \E report \in Reports : Add(report)
    \/ \E force \in BOOLEAN, ignore_original \in BOOLEAN : Save(force, ignore_original)
    \/ \E rb \in BOOLEAN, crit \in Criterias : NewRecorder(rb, crit)
    \/ Rerun

Spec == Init /\ [][Next]_vars

\* the runs, with saves that may be interrupted
NextCrash ==
    \/ Next
    \/ \E force \in BOOLEAN, ignore_original \in BOOLEAN, n \in 0 .. MaxWrites :
          Crash(force, ignore_original, n)

SpecCrash == Init /\ [][NextCrash]_vars

(***************************************************************************)
(* A bare ReportMerger: merge called again and again, each call's original *)
(* being the list the call before it returned (the published list).        *)
(***************************************************************************)
\* the most additional items of one call
MaxItems == 2

\* a report as merge sees it under rule r: get_id(), as_dict(), equals()
ItemView(r, report) ==
    CASE r \in ReportRules ->
           [id |-> get_id(report), dict |-> as_dict(report), byid |-> FALSE]
      [] r = "userlist" ->
           [id |-> report.reporter, dict |-> UserListElement_as_dict(report.reporter),
            byid |-> TRUE]
      [] r = "questlist" ->
           [id |-> quest_id(report),
            dict |-> QuestListElement_as_dict(
                       QuestListElement(quest_id(report), report.chapter, report.place,
                                        report.timestamp, is_freequest(report))),
            byid |-> FALSE]

\* the lists of at most n reports
RECURSIVE ReportLists(_)
ReportLists(n) ==
    IF n = 0 THEN {<<>>}
    ELSE ReportLists(n - 1)
         \cup { Append(l, r) : l \in { x \in ReportLists(n - 1) : Len(x) = n - 1 },
                               r \in Reports }

\* merged = ReportMerger().merge(additional_items, original)
Merge(reports) ==
    /\ m_additional' = [i \in 1 .. Len(reports) |-> ItemView(rule, reports[i])]
    /\ m_original' = m_merged
    /\ m_merged' = merge(m_additional', m_merged)
    /\ UNCHANGED <<recorderVars, lateVars, readall, detector, catalog, rebuilder, hrun, skipcall>>

NextMerge == \E reports \in ReportLists(MaxItems) : Merge(reports)

\* a bare merger over the items of one kind: RunReport, UserListElement or
\* QuestListElement
InitMerge ==
    /\ Init
    /\ rule \in {"date", "userlist", "questlist"}
    /\ criteria = Date(2000, 1, 1)
    /\ ~rebuild

SpecMerge == InitMerge /\ [][NextMerge]_vars

(***************************************************************************)
(* repository.TweetRepository: tweets are stored raw, readall parses them. *)
(***************************************************************************)
\* the most tweets stored
MaxTweets == 3

\* a header line "[[ location ]] 10 laps"
HeaderLine(location) == <<LBracket>> \o location \o <<RBracket, "10", Laps>>

\* the texts of the stored tweets: a report, a text without a header, a
\* location of one word that starts with a training ground's place, and an
\* advertisement (an NG tag among several hash tags)
GoodText == << HeaderLine(<<"Fuyuki", " ", "X-A">>), <<"QP", "3">>, <<Tag>> >>
NoHeaderText == << <<"hello">>, <<Tag>> >>
OneWordText == << HeaderLine(<<"Beginner", "s">>), <<Tag>> >>
NGText == << HeaderLine(<<"Fuyuki", " ", "X-A">>), <<Tag, "#NG">> >>

\* a stored tweet, TweetCopy.as_dict
TweetCopy(id, name, text, at) ==
    [tweet_id |-> id, screen_name |-> name, full_text |-> text, created_at |-> at]

\* the tweets the collector may have stored
Tweets ==
    { TweetCopy(1, "alice", GoodText, T1),
      TweetCopy(2, "alice", NoHeaderText, T2),
      TweetCopy(3, "bob", GoodText, T3),
      TweetCopy(4, "spam", GoodText, T2),
      TweetCopy(5, "bob", NGText, T2),
      TweetCopy(6, "bob", OneWordText, T2) }

\* the censored accounts readall is given
exclude_accounts == {"spam"}

\* twitter.appropriate_tweet on the hash tags of a text
appropriate_tweet(full_text) ==
    LET hashtags == { <<i, j>> \in (1 .. Len(full_text)) \X (1 .. 4) :
                        /\ j <= Len(full_text[i])
                        /\ full_text[i][j] \in {Tag, "#NG"} }
    IN  ~(/\ Cardinality(hashtags) > 1
          /\ \E h \in hashtags : full_text[h[1]][h[2]] = "#NG")

\* TweetCopy.retrieve: None for an inappropriate tweet
retrieve(data) ==
    IF appropriate_tweet(data.full_text) THEN data ELSE [tweet_id |-> NoTweet]

\* reports.sort(key=lambda e: e.timestamp, reverse=True), stable
RECURSIVE SortReportsDesc(_)
SortReportsDesc(list) ==
    IF list = <<>> THEN <<>>
    ELSE LET sorted == SortReportsDesc(SubSeq(list, 1, Len(list) - 1))
             e == list[Len(list)]
             n == Cardinality({ i \in 1 .. Len(sorted) :
                                  DtOrd(sorted[i].timestamp) >= DtOrd(e.timestamp) })
         IN  SubSeq(sorted, 1, n) \o <<e>> \o SubSeq(sorted, n + 1, Len(sorted))

\* TweetRepository.put / append_tweets: one more tweet in the store
PutTweet(tw) ==
    /\ readall.status = "idle"
    /\ Len(readall.stored) < MaxTweets
    /\ readall' = [readall EXCEPT !.stored = Append(@, tw)]
    /\ UNCHANGED <<recorderVars, lateVars, mergeVars, detector, catalog, rebuilder, hrun, skipcall>>

\* TweetRepository.readall is called
ReadallBegin ==
    /\ readall.status = "idle"
    /\ readall' = [readall EXCEPT !.status = "reading", !.pos = 1]
    /\ UNCHANGED <<recorderVars, lateVars, mergeVars, detector, catalog, rebuilder, hrun, skipcall>>

\* readall, the turn of a tweet that was parsed: reports.append(report) and
\* id_cache.add stand after the try statement
readall_append(ra, tw, parsed) ==
    IF parsed.kind \notin TweetParseErrors \cup {"RunReport"}
    THEN \* an exception the except clause does not name
         [ra EXCEPT !.status = "aborted", !.error = parsed.kind]
    ELSE IF parsed.kind # "RunReport" /\ ra.report.kind = "unbound"
    THEN \* reports.append(report) reads a local never assigned
         [ra EXCEPT
            !.parseErrorTweets = Append(@, [tweet |-> tw, error_message |-> parsed.kind]),
            !.status = "aborted", !.error = "UnboundLocalError"]
    ELSE [ra EXCEPT
            !.parseErrorTweets =
               IF parsed.kind = "RunReport" THEN @
               ELSE Append(@, [tweet |-> tw, error_message |-> parsed.kind]),
            \* the local variable report after the try statement
            !.report = IF parsed.kind = "RunReport" THEN parsed ELSE @,
            !.reports = Append(@, IF parsed.kind = "RunReport" THEN parsed ELSE ra.report),
            !.id_cache = @ \cup {tw.tweet_id},
            !.pos = @ + 1]

\* readall, the turn of one retrieved tweet
readall_turn(ra, tw) ==
    IF \/ tw.tweet_id = NoTweet
       \/ tw.tweet_id \in ra.id_cache
       \/ tw.screen_name \in exclude_accounts
    THEN [ra EXCEPT !.pos = @ + 1]
    ELSE readall_append(ra, tw, parse_tweet(tw))

\* one turn of the loop of readall over the stored tweets
ReadTweet ==
    /\ readall.status = "reading"
    /\ readall.pos <= Len(readall.stored)
    /\ readall' = readall_turn(readall, retrieve(readall.stored[readall.pos]))
    /\ UNCHANGED <<recorderVars, lateVars, mergeVars, detector, catalog, rebuilder, hrun, skipcall>>

\* the loop is over: readall sorts the reports and returns
ReadallEnd ==
    /\ readall.status = "reading"
    /\ readall.pos > Len(readall.stored)
    /\ readall' = [readall EXCEPT !.status = "done",
                                  !.reports = SortReportsDesc(@)]
    /\ UNCHANGED <<recorderVars, lateVars, mergeVars, detector, catalog, rebuilder, hrun, skipcall>>

NextRead ==
    \/ \E tw \in Tweets : PutTweet(tw)
    \/ ReadallBegin
    \/ ReadTweet
    \/ ReadallEnd

\* one store, read once
InitRead ==
    /\ Init
    /\ rule = "date"
    /\ criteria = Date(2000, 1, 1)

SpecRead == InitRead /\ [][NextRead]_vars

(***************************************************************************)
(* Detector.get_quest_id and get_quest_name, called from the threads of    *)
(* rebuild_outputs: RunReport.quest_id, then QuestListElement.__init__     *)
(***************************************************************************)
Years == {2020, 2021}

\* the (chapter, place) of the reports: a catalog quest, a quest known by its
\* place alone, an event quest
Calls == { <<"Fuyuki", "X-A">>, <<"Event", "X-A">>, <<"Event", "Stage">> }

\* d[k] = v
Put(d, k, v) == [x \in DOMAIN d \cup {k} |-> IF x = k THEN v ELSE d[x]]

\* report.quest_id: the thread enters get_quest_id
DetCall(t, i, c, y) ==
    /\ detector.thread[t].pc = "idle"
    /\ detector' = [detector EXCEPT !.thread[t] =
                      [ThreadIdle EXCEPT !.pc = "get_quest_id", !.inst = i,
                                         !.chapter = c[1], !.place = c[2], !.year = y]]
    /\ UNCHANGED <<recorderVars, lateVars, mergeVars, readall, catalog, rebuilder, hrun, skipcall>>

\* get_quest_id: the three lookups; a hit returns, a miss digests the key
DetLookup(t) ==
    LET th == detector.thread[t]
        r == Detector_get_quest_id(Detector_freequest_db,
                                   detector.eventquest_cache[th.inst],
                                   th.chapter, th.place, th.year)
    IN  /\ th.pc = "get_quest_id"
        /\ detector' =
             IF r.hit
             THEN [detector EXCEPT
                     !.thread[t].pc = "returned",
                     !.thread[t].qid = r.qid,
                     !.thread[t].quest_id = IF th.retry THEN @ ELSE r.qid,
                     !.issued = @ \cup {<<th.chapter, th.place, th.year, r.qid>>}]
             ELSE [detector EXCEPT !.thread[t].pc = "digest", !.thread[t].qid = r.qid]
        /\ UNCHANGED <<recorderVars, lateVars, mergeVars, readall, catalog, rebuilder, hrun, skipcall>>

\* get_quest_id: self.eventquest_cache[key_for_eventquest] = qid
DetCache(t) ==
    LET th == detector.thread[t]
    IN  /\ th.pc = "digest"
        /\ detector' = [detector EXCEPT
                          !.eventquest_cache[th.inst] =
                              Put(@, <<th.chapter, th.place, th.year>>, th.qid),
                          !.thread[t].pc = "cached"]
        /\ UNCHANGED <<recorderVars, lateVars, mergeVars, readall, catalog, rebuilder, hrun, skipcall>>

\* get_quest_id: self.quest_reverse_index[qid] = '[year] chapter place'; return
DetIndex(t) ==
    LET th == detector.thread[t]
    IN  /\ th.pc = "cached"
        /\ detector' = [detector EXCEPT
                          !.quest_reverse_index[th.inst] =
                              Put(@, th.qid, "[" \o ToString(th.year) \o "] "
                                             \o th.chapter \o " " \o th.place),
                          !.thread[t].pc = "returned",
                          !.thread[t].quest_id = IF th.retry THEN @ ELSE th.qid,
                          !.issued = @ \cup {<<th.chapter, th.place, th.year, th.qid>>}]
        /\ UNCHANGED <<recorderVars, lateVars, mergeVars, readall, catalog, rebuilder, hrun, skipcall>>

\* QuestListElement.__init__: get_quest_name(quest_id); on the first KeyError
\* get_quest_id is called again, on the second the KeyError leaves the thread
DetName(t) ==
    LET th == detector.thread[t]
        index == detector.quest_reverse_index[th.inst]
    IN  /\ th.pc = "returned"
        /\ detector' =
             IF th.retry /\ th.quest_id # th.qid
             THEN [detector EXCEPT !.thread[t].pc = "failed",
                                   !.thread[t].quest_name = "ValueError"]
             ELSE IF th.quest_id \in DOMAIN quest_reverse_index
             THEN [detector EXCEPT !.thread[t].pc = "named",
                                   !.thread[t].quest_name =
                                       LET n == quest_reverse_index[th.quest_id]
                                       IN  n[1] \o " " \o n[2] \o " " \o n[3]]
             ELSE IF th.quest_id \in DOMAIN index
             THEN [detector EXCEPT !.thread[t].pc = "named",
                                   !.thread[t].quest_name = index[th.quest_id]]
             ELSE IF ~th.retry
             THEN [detector EXCEPT !.thread[t].pc = "get_quest_id",
                                   !.thread[t].retry = TRUE]
             ELSE [detector EXCEPT !.thread[t].pc = "failed",
                                   !.thread[t].quest_name = "KeyError"]
        /\ UNCHANGED <<recorderVars, lateVars, mergeVars, readall, catalog, rebuilder, hrun, skipcall>>

\* the thread goes on to its next report
DetDone(t) ==
    /\ detector.thread[t].pc = "named"
    /\ detector' = [detector EXCEPT !.thread[t] = ThreadIdle]
    /\ UNCHANGED <<recorderVars, lateVars, mergeVars, readall, catalog, rebuilder, hrun, skipcall>>

NextDetector ==
    \/ \E t \in Threads, i \in Instances, c \in Calls, y \in Years : DetCall(t, i, c, y)
    \/ \E t \in Threads : DetLookup(t)
    \/ \E t \in Threads : DetCache(t)
    \/ \E t \in Threads : DetIndex(t)
    \/ \E t \in Threads : DetName(t)
    \/ \E t \in Threads : DetDone(t)

SpecDetector == InitRead /\ [][NextDetector]_vars

(***************************************************************************)
(* Detector(freequests) over catalogs of a few rows in any order           *)
(***************************************************************************)
\* the rows added to the two aliased ones
MaxRows == 3

\* a quest per place, a training ground, a group of two quests in one place,
\* a place of the same name in another chapter, a second quest in one place,
\* a quest of the same name in another place
RowPool ==
    { [id |-> "F001", chapter |-> "Fuyuki", place |-> "X-A", quest |-> "Q1"],
      [id |-> "00a01", chapter |-> "Sword", place |-> "Beginner", quest |-> ""],
      [id |-> "O1", chapter |-> "Okeanos", place |-> "Islands", quest |-> "Cove"],
      [id |-> "O2", chapter |-> "Okeanos", place |-> "Islands", quest |-> "HiddenIsle"],
      [id |-> "L1", chapter |-> "London", place |-> "X-A", quest |-> "Q2"],
      [id |-> "F002", chapter |-> "Fuyuki", place |-> "X-A", quest |-> "Q3"],
      [id |-> "G1", chapter |-> "Gaul", place |-> "Y.B", quest |-> "Q1"] }

\* the (chapter, place) asked of get_quest_id
LookupCalls ==
    { <<"Okeanos", "Islands">>, <<"", "Islands">>, <<"Okeanos", "Cove">>,
      <<"Okeanos", "HiddenIsle">>, <<"", "HiddenIsle">>,
      <<"Okeanos Islands", "HiddenIsle">>, <<"", "Q1">>, <<"Fuyuki", "X-A">> }

\* a row of freequest.json, at any place of the list
AddRow(fq) ==
    /\ catalog.status = "idle"
    /\ Len(catalog.rows) < Len(SpecialRows) + MaxRows
    /\ \A i \in 1 .. Len(catalog.rows) : catalog.rows[i] # fq
    /\ \E pos \in 0 .. Len(catalog.rows) :
          catalog' = [catalog EXCEPT !.rows = SubSeq(@, 1, pos) \o <<fq>>
                                             \o SubSeq(@, pos + 1, Len(@))]
    /\ UNCHANGED <<recorderVars, lateVars, mergeVars, readall, detector, rebuilder, hrun, skipcall>>

\* Detector.__init__: self.freequest_db = _build_db(freequests)
BuildDb ==
    LET built == _build_db(catalog.rows)
    IN  /\ catalog.status = "idle"
        /\ catalog' = [catalog EXCEPT
                         !.status = IF built.error = "" THEN "built" ELSE "raised",
                         !.d = IF built.error = "" THEN built.d ELSE <<>>,
                         !.error = built.error]
        /\ UNCHANGED <<recorderVars, lateVars, mergeVars, readall, detector, rebuilder, hrun, skipcall>>

\* Detector.get_quest_id(chapter, place, 2020) on the built instance
Lookup(c) ==
    /\ catalog.status = "built"
    /\ catalog' = [catalog EXCEPT !.lookup =
                      [chapter |-> c[1], place |-> c[2],
                       qid |-> Detector_get_quest_id(catalog.d, <<>>, c[1], c[2], 2020).qid]]
    /\ UNCHANGED <<recorderVars, lateVars, mergeVars, readall, detector, rebuilder, hrun, skipcall>>

NextCatalog ==
    \/ \E fq \in RowPool : AddRow(fq)
    \/ BuildDb
    \/ \E c \in LookupCalls : Lookup(c)

SpecCatalog == InitRead /\ [][NextCatalog]_vars

(***************************************************************************)
(* app.rebuild_outputs: the executor, its tasks and the parent              *)
(***************************************************************************)
\* concurrent.futures.wait(procs, return_when=FIRST_EXCEPTION)
WaitReturns_firstException(task) ==
    \/ \A v \in DOMAIN task : task[v] \in {"none", "done", "raised"}
    \/ \E v \in DOMAIN task : task[v] = "raised"

\* concurrent.futures.wait(procs): return_when is ALL_COMPLETED
WaitReturns(task) == \A v \in DOMAIN task : task[v] \in {"none", "done", "raised"}

\* rebuild_outputs(event, context) up to the with statement: the skipBuild*
\* flags of the event; the errors view has no flag
RebuildBegin(skip) ==
    /\ rebuilder.pc = "idle"
    /\ rebuilder' = [rebuilder EXCEPT !.pc = "submit", !.skip = skip]
    /\ UNCHANGED <<recorderVars, lateVars, mergeVars, readall, detector, catalog, hrun, skipcall>>

\* the next `if skip_build_x: ... else: procs.append(executor.submit(...))`
RebuildSubmit ==
    LET v == Views[rebuilder.next]
    IN  /\ rebuilder.pc = "submit"
        /\ rebuilder' = [rebuilder EXCEPT
                           !.task[v] = IF v \in rebuilder.skip THEN "none" ELSE "pending",
                           !.next = @ + 1,
                           !.pc = IF rebuilder.next = Len(Views) THEN "wait" ELSE "submit"]
        /\ UNCHANGED <<recorderVars, lateVars, mergeVars, readall, detector, catalog, hrun, skipcall>>

\* a worker thread of the pool takes the task
TaskStart(v) ==
    /\ rebuilder.task[v] = "pending"
    /\ rebuilder' = [rebuilder EXCEPT !.task[v] = "running"]
    /\ UNCHANGED <<recorderVars, lateVars, mergeVars, readall, detector, catalog, hrun, skipcall>>

\* the task returns, or raises: the Future keeps the result or the exception
TaskEnd(v, outcome) ==
    /\ rebuilder.task[v] = "running"
    /\ rebuilder' = [rebuilder EXCEPT !.task[v] = outcome,
                                      !.completed = Append(@, v)]
    /\ UNCHANGED <<recorderVars, lateVars, mergeVars, readall, detector, catalog, hrun, skipcall>>

\* done, not_done = concurrent.futures.wait(procs)
RebuildWait ==
    /\ rebuilder.pc = "wait"
    /\ WaitReturns(rebuilder.task)
    /\ rebuilder' = [rebuilder EXCEPT
                       !.pc = "joined",
                       !.done = { v \in DOMAIN rebuilder.task :
                                    rebuilder.task[v] \in {"done", "raised"} },
                       !.not_done = { v \in DOMAIN rebuilder.task :
                                        rebuilder.task[v] \in {"pending", "running"} }]
    /\ UNCHANGED <<recorderVars, lateVars, mergeVars, readall, detector, catalog, hrun, skipcall>>

\* the end of the with statement: executor.shutdown(wait=True); the last log
RebuildExit ==
    /\ rebuilder.pc = "joined"
    /\ \A v \in DOMAIN rebuilder.task : rebuilder.task[v] \in {"none", "done", "raised"}
    /\ rebuilder' = [rebuilder EXCEPT !.pc = "finished"]
    /\ UNCHANGED <<recorderVars, lateVars, mergeVars, readall, detector, catalog, hrun, skipcall>>

NextRebuild ==
    \/ \E skip \in SUBSET {"date", "user", "quest", "month"} : RebuildBegin(skip)
    \/ RebuildSubmit
    \/ \E v \in Range(Views) : TaskStart(v)
    \/ \E v \in Range(Views), outcome \in {"done", "raised"} : TaskEnd(v, outcome)
    \/ RebuildWait
    \/ RebuildExit

SpecRebuild == InitRead /\ [][NextRebuild]_vars

(***************************************************************************)
(* recording.PartitioningRuleBy1HRun                                       *)
(***************************************************************************)
\* the records one rule is given
MaxDispatch == 2

\* the days of the records: 2023-07-01 is day 1, the day before it day 0
TargetDays == 1 .. 10

\* the date of a day number, between June and August 2023
DayToDate(n) ==
    IF n < 1 THEN Date(2023, 6, 30 + n)
    ELSE IF n > 31 THEN Date(2023, 8, n - 31)
    ELSE Date(2023, 7, n)

\* date.weekday(): 0 is Monday; 2023-07-01 was a Saturday
weekday(n) == (n + 4 + 70) % 7

\* str.lower() of a word of the note
lower(word) ==
    IF word \in {"#FGO_1H_run", "#FGO_1H_RUN", "#fgo_1h_run"} THEN "#fgo_1h_run" ELSE word

\* report.note, as its whitespace-separated words
Notes == { <<"test0", "#FGO_1H_run">>, <<"#FGO_1H_RUN">>, <<"#fgo_1h_run">>, <<"test4">> }

\* recording.get_week_start_day
get_week_start_day(target_date, start_day) ==
    LET delta == weekday(target_date) - start_day
    IN  target_date - (IF delta < 0 THEN delta + 7 ELSE delta)

\* PartitioningRuleBy1HRun(start_day)
HRunNew(start_day) ==
    /\ hrun.status = "idle"
    /\ hrun' = IF start_day < 0 \/ start_day > 6
               THEN [hrun EXCEPT !.status = "ValueError"]
               ELSE [hrun EXCEPT !.status = "ready", !.start_day = start_day]
    /\ UNCHANGED <<recorderVars, lateVars, mergeVars, readall, detector, catalog, rebuilder, skipcall>>

\* PartitioningRuleBy1HRun.dispatch(partitions, report)
HRunDispatch(target_date, note) ==
    LET tagged == \E i \in 1 .. Len(note) : lower(note[i]) = "#fgo_1h_run"
        week_start == get_week_start_day(target_date, hrun.start_day)
        display_date == week_start + (5 - hrun.start_day)
        display_date_str == DateIso(DayToDate(display_date))
        report == [date |-> target_date, note |-> note]
    IN  /\ hrun.status = "ready"
        /\ hrun.dispatched < MaxDispatch
        /\ hrun' = [hrun EXCEPT
                      !.dispatched = @ + 1,
                      !.partitions = IF tagged
                                     THEN AppendTo(@, display_date_str, report)
                                     ELSE @,
                      !.last = [target |-> target_date, tagged |-> tagged,
                                key |-> IF tagged THEN display_date_str ELSE <<>>]]
        /\ UNCHANGED <<recorderVars, lateVars, mergeVars, readall, detector, catalog, rebuilder, skipcall>>

NextHRun ==
    \/ \E start_day \in -1 .. 7 : HRunNew(start_day)
    \/ \E target_date \in TargetDays, note \in Notes : HRunDispatch(target_date, note)

SpecHRun == InitRead /\ [][NextHRun]_vars

(***************************************************************************)
(* recording.SkipSaveRuleByDate.match, called with any key                 *)
(***************************************************************************)
\* the criteria of the rule
MatchCriterias == Criterias \cup { Date(2023, 6, 2) }

\* key.split("-"): dates and months, valid or not, and keys of one part and
\* of four
MatchKeys ==
    { <<y, m, d>> : y \in {"2000", "2023", "a"},
                    m \in {"1", "6", "7", "13"},
                    d \in {"1", "2", "31", "0"} }
    \cup { <<y, m>> : y \in {"2000", "2023", "a"}, m \in {"1", "6", "7", "13", "0", "a"} }
    \cup { <<"all">>, <<"alice">>, <<"2023">>, <<"2023", "6", "2", "1">> }

\* the decimal string denotes a number
IsNumber(part) == \E n \in Numerals : ToString(n) = part

\* the days of a month; February is not among the inputs
DaysIn(m) == IF m \in {4, 6, 9, 11} THEN 30 ELSE 31

\* date.fromisoformat(key) and datetime.strptime(key, "%Y-%m") accept the key
Convertible(key) ==
    /\ Len(key) \in {2, 3}
    /\ \A i \in 1 .. Len(key) : IsNumber(key[i])
    /\ ParseInt(key[1]) \in 1 .. 9999
    /\ ParseInt(key[2]) \in 1 .. 12
    /\ Len(key) = 3 => ParseInt(key[3]) \in 1 .. DaysIn(ParseInt(key[2]))

\* SkipSaveRuleByDate.match(key): the value returned, or the ValueError of
\* the conversion
SkipSaveRuleByDate_call(crit, key) ==
    IF Len(key) \in {2, 3} /\ ~Convertible(key)
    THEN [kind |-> "ValueError", value |-> FALSE]
    ELSE [kind |-> "return", value |-> SkipSaveRuleByDate_match(crit, key)]

\* SkipSaveRuleByDate(criteria).match(key)
SkipMatch(crit, key) ==
    /\ skipcall' = [status |-> "called", criteria |-> crit, key |-> key,
                    outcome |-> SkipSaveRuleByDate_call(crit, key)]
    /\ UNCHANGED <<recorderVars, lateVars, mergeVars, readall, detector, catalog, rebuilder, hrun>>

NextMatch == \E crit \in MatchCriterias, key \in MatchKeys : SkipMatch(crit, key)

SpecMatch == InitRead /\ [][NextMatch]_vars

TypeOK == phase \in {"ready", "saved"}

(***************************************************************************)
(* Properties                                                              *)
(***************************************************************************)
\* the greatest of a non-empty set of numbers
Max(S) == CHOOSE x \in S : \A y \in S : y <= x

\* the last save ran to its end with force=false and ignore_original=false
PlainSave(sv) == sv.any /\ sv.done /\ ~sv.force /\ ~sv.ignore_original

\* C1: once a complete save(force=false, ignore_original=false) has published
\* the dispatched records, a second Recorder of the same configuration that is
\* fed the identical records and saved with force=false writes no artifact at
\* all, under every partitioning rule except the quest-list rule.
C1_SaveIdempotent ==
    (/\ phase = "saved"
     /\ rerun
     /\ rule # "questlist"
     /\ PlainSave(prevSave)
     /\ PlainSave(lastSave))
    => writes = {}

\* C2: a save with ignore_original=false keeps, in every partition's published
\* JSON, every record id that was published there before the save, whether or
\* not the run saw that record.
C2_MonotonicHistory ==
    (phase = "saved" /\ lastSave.any /\ ~lastSave.ignore_original)
    => \A key \in DOMAIN prev :
          Ids(prev[key]["json"]) \subseteq Ids(FileOf(storage, key, "json"))

\* a save rewrote the JSON of a partition that held a published record the
\* run did not see
C2_Witness ==
    /\ phase = "saved"
    /\ lastSave.any
    /\ ~lastSave.ignore_original
    /\ \E key \in DOMAIN prev \cap DOMAIN partitions :
          /\ <<key, "json">> \in writes
          /\ \E id \in Ids(prev[key]["json"]) :
                /\ id \notin { Items(Self, key)[i].id : i \in 1 .. Len(partitions[key]) }
                /\ id \in Ids(storage[key]["json"])

\* the additional items of the last merge that carry the id of the original
\* entry o and are not equal to it
Differing(o) ==
    { i \in 1 .. Len(m_additional) :
        m_additional[i].id = o.id /\ ~equals(m_additional[i], o) }

\* C3: merge(additional, original) adds every item whose id is absent from
\* original; returns original itself when every item's id is present with an
\* equal dict; and an item whose id is present with a different dict replaces
\* that one entry, every other entry of original staying as it was.
C3_MergeById ==
    /\ \A i \in 1 .. Len(m_additional) :
          m_additional[i].id \notin Ids(m_original)
          => \E j \in 1 .. Len(m_merged), k \in 1 .. Len(m_additional) :
                /\ m_additional[k].id = m_additional[i].id
                /\ m_merged[j] = m_additional[k].dict
    /\ (\A i \in 1 .. Len(m_additional) :
          \E o \in Range(m_original) :
             o.id = m_additional[i].id /\ equals(m_additional[i], o))
       => m_merged = m_original
    /\ \A o \in Range(m_original) :
          IF Differing(o) = {}
          THEN o \in Range(m_merged)
          ELSE m_additional[Max(Differing(o))].dict \in Range(m_merged)
    /\ Len(m_merged)
         = Cardinality(Ids(m_original)
                       \cup { m_additional[i].id : i \in 1 .. Len(m_additional) })

\* one item whose id is present with a different dict was merged into an
\* original of several entries
C3_Witness ==
    /\ Len(m_original) >= 2
    /\ Len(m_additional) = 1
    /\ \E o \in Range(m_original) : Differing(o) = {1}
    /\ m_merged # m_original
    /\ m_additional[1].dict \in Range(m_merged)

\* the least of a non-empty set of numbers
Min(S) == CHOOSE x \in S : \A y \in S : x <= y

\* the records of this run that resolve to the quest qid
Dispatched(qid) == { i \in 1 .. Len(input) : quest_id(input[i]) = qid }

\* the count all.json publishes for the quest qid, 0 when it does not list it
PublishedCount(st, qid) ==
    LET text == FileOf(st, AllKey, "json")
        at == { i \in 1 .. Len(text) : text[i].id = qid }
    IN  IF at = {} THEN 0 ELSE text[Max(at)].count

\* C4: when the quest-list rule is not in rebuild mode, the count all.json
\* publishes for a quest after a run is the count it published before the run
\* (0 for an unknown quest) plus the number of records the run dispatched for
\* that quest.
C4_QuestCountAccumulates ==
    (/\ rule = "questlist"
     /\ phase = "saved"
     /\ ~rebuild
     /\ lastSave.any
     /\ lastSave.done)
    => \A qid \in Ids(FileOf(prev, AllKey, "json"))
                  \cup Ids(FileOf(storage, AllKey, "json"))
                  \cup { quest_id(input[i]) : i \in 1 .. Len(input) } :
          PublishedCount(storage, qid)
            = PublishedCount(prev, qid) + Cardinality(Dispatched(qid))

\* a run added to the count an earlier run had published
C4_Witness ==
    /\ rule = "questlist"
    /\ phase = "saved"
    /\ ~rebuild
    /\ lastSave.any
    /\ lastSave.done
    /\ \E qid \in Ids(FileOf(prev, AllKey, "json")) :
          /\ PublishedCount(prev, qid) >= 1
          /\ Dispatched(qid) # {}
          /\ PublishedCount(storage, qid) >= 2

\* the quest-list rule of the current Recorder started empty
StartedEmpty == rebuild \/ FileOf(storage, AllKey, "json") = <<>>

\* C5: starting from an empty quest-list rule, after dispatching N records of
\* one quest, in any order, the quest's element has count = N, since = the
\* least timestamp dispatched and latest = the greatest.
C5_QuestAggregate ==
    (rule = "questlist" /\ phase = "ready" /\ StartedEmpty)
    => /\ QuestIds(quest_dict) = { quest_id(input[i]) : i \in 1 .. Len(input) }
       /\ \A n \in 1 .. Len(quest_dict) :
             LET e == quest_dict[n]
                 stamps == { DtOrd(input[i].timestamp) : i \in Dispatched(e.quest_id) }
             IN  /\ e.count = Cardinality(Dispatched(e.quest_id))
                 /\ DtOrd(e.since) = Min(stamps)
                 /\ DtOrd(e.latest) = Max(stamps)

\* two records of one quest were dispatched latest first
C5_Witness ==
    /\ rule = "questlist"
    /\ phase = "ready"
    /\ StartedEmpty
    /\ Len(input) = 2
    /\ quest_id(input[1]) = quest_id(input[2])
    /\ DtOrd(input[1].timestamp) > DtOrd(input[2].timestamp)
    /\ \E n \in 1 .. Len(quest_dict) :
          /\ quest_dict[n].count = 2
          /\ quest_dict[n].since = input[2].timestamp
          /\ quest_dict[n].latest = input[1].timestamp

\* a step that dispatches one record to the quest-list rule
C6_Step ==
    (rule = "questlist" /\ phase = "ready" /\ phase' = "ready"
     /\ counter' = counter + 1)
    => \A i \in 1 .. Len(quest_dict) :
          \E j \in 1 .. Len(quest_dict') :
             /\ quest_dict'[j].quest_id = quest_dict[i].quest_id
             /\ DtOrd(quest_dict'[j].since) <= DtOrd(quest_dict[i].since)
             /\ DtOrd(quest_dict'[j].latest) >= DtOrd(quest_dict[i].latest)
             /\ quest_dict'[j].count >= quest_dict[i].count

\* C6: at every dispatch within one quest-list rule's lifetime, no element's
\* since moves later, no element's latest moves earlier and no element's
\* count decreases.
C6_QuestElementMonotone == [][C6_Step]_vars

\* an element loaded from all.json had its since moved earlier by a dispatch
C6_Witness ==
    /\ rule = "questlist"
    /\ phase = "ready"
    /\ ~rebuild
    /\ \E n \in 1 .. Len(quest_dict), i \in 1 .. Len(FileOf(storage, AllKey, "json")) :
          LET e == quest_dict[n]
              q == QuestList_load_hook(storage[AllKey]["json"][i])
          IN  /\ q.id = e.quest_id
              /\ DtOrd(e.since) < DtOrd(q.since)
              /\ DtOrd(e.latest) >= DtOrd(q.latest)
              /\ e.count > q.count

\* C7: a save writes no artifact of a partition whose key the skip-save rule
\* matches, whatever force and ignore_original are, and leaves the stored
\* artifacts of that partition as they were.
C7_SkippedPartitionUntouched ==
    (phase = "saved" /\ lastSave.any)
    => \A key \in DOMAIN partitions :
          match(rule, criteria, unmatch, key)
          => /\ \A fmt \in {"json", "csv", "html"} : <<key, fmt>> \notin writes
             /\ \A fmt \in {"json", "csv", "html"} :
                   FileOf(storage, key, fmt) = FileOf(prev, key, fmt)

\* a forced save wrote one partition and passed over a matched one
C7_Witness ==
    /\ phase = "saved"
    /\ lastSave.any
    /\ lastSave.force
    /\ writes # {}
    /\ \E key \in DOMAIN partitions :
          /\ match(rule, criteria, unmatch, key)
          /\ Len(partitions[key]) > 0
          /\ \A fmt \in {"json", "csv", "html"} : <<key, fmt>> \notin writes

\* C8: when a save was interrupted between two artifact writes and the same
\* run is repeated with the same records and force=false, then after the
\* repeated save every output format of every partition the skip-save rule
\* does not match holds the merged records.
C8_RerunRepairsCrash ==
    (/\ phase = "saved"
     /\ rerun
     /\ prevSave.any
     /\ ~prevSave.done
     /\ lastSave.any
     /\ lastSave.done
     /\ ~lastSave.force
     /\ lastSave.ignore_original = prevSave.ignore_original)
    => \A key \in DOMAIN partitions :
          ~match(rule, criteria, unmatch, key)
          => \A n \in 1 .. Len(Formats(rule)) :
                FileOf(storage, key, Formats(rule)[n])
                  = Render(Formats(rule)[n],
                           MergedOf(Self, prev, lastSave.ignore_original, key))

\* C9: two records of a run that differ in report_id or in tweet_id have
\* different get_id() values.
C9_IdsDoNotCollide ==
    \A i, j \in 1 .. Len(input) :
       (input[i].report_id # input[j].report_id \/ input[i].tweet_id # input[j].tweet_id)
       => get_id(input[i]) # get_id(input[j])

\* the configuration of the last save is one the callers use
ByCaller ==
    [rebuild |-> rebuild, force |-> lastSave.force,
     ignore_original |-> lastSave.ignore_original] \in QuestListCallers

\* C10: a run of a caller that dispatches at least one record to the
\* quest-list Recorder rewrites the artifacts of 'all', also when every
\* dispatched record is of a quest the list already holds.
C10_QuestListRewritten ==
    (/\ rule = "questlist"
     /\ phase = "saved"
     /\ lastSave.any
     /\ lastSave.done
     /\ input # <<>>
     /\ ByCaller)
    => {<<AllKey, "json">>, <<AllKey, "html">>} \subseteq writes

\* an unforced run whose records were all of quests the list held already
\* rewrote the list
C10_Witness ==
    /\ rule = "questlist"
    /\ phase = "saved"
    /\ lastSave.any
    /\ lastSave.done
    /\ ~lastSave.force
    /\ ~rebuild
    /\ ByCaller
    /\ input # <<>>
    /\ { quest_id(input[i]) : i \in 1 .. Len(input) } \subseteq Ids(FileOf(prev, AllKey, "json"))
    /\ Ids(FileOf(storage, AllKey, "json")) = Ids(FileOf(prev, AllKey, "json"))
    /\ <<AllKey, "json">> \in writes

\* the stored tweets readall neither drops as inappropriate nor excludes
Eligible ==
    { i \in 1 .. Len(readall.stored) :
        /\ retrieve(readall.stored[i]).tweet_id # NoTweet
        /\ readall.stored[i].screen_name \notin exclude_accounts }

\* the reports and the parse-error records readall returned for tweet id
ReportsOf(id) == { i \in 1 .. Len(readall.reports) : readall.reports[i].tweet_id = id }
ErrorsOf(id) ==
    { i \in 1 .. Len(readall.parseErrorTweets) :
        readall.parseErrorTweets[i].tweet.tweet_id = id }

\* C11: readall is never aborted by a parse failure, and it returns, for each
\* distinct stored tweet that is not excluded, exactly one output: a report
\* when the tweet parses, a parse-error record and no report when it does not;
\* no id is twice in the reports.
C11_OneOutputPerTweet ==
    /\ ~(readall.status = "aborted" /\ readall.error = "UnboundLocalError")
    /\ readall.status = "done"
       => \A i \in Eligible :
             LET tw == readall.stored[i]
             IN  /\ Cardinality(ReportsOf(tw.tweet_id)) + Cardinality(ErrorsOf(tw.tweet_id)) = 1
                 /\ parse_tweet(tw).kind = "RunReport"
                    <=> Cardinality(ReportsOf(tw.tweet_id)) = 1

\* the stored tweets readall has handed to parse_tweet so far
Parsed ==
    { i \in 1 .. Len(readall.stored) :
        /\ readall.status # "idle"
        /\ i < readall.pos \/ (i = readall.pos /\ readall.status = "aborted")
        /\ retrieve(readall.stored[i]).tweet_id # NoTweet }

\* C12: parse_tweet returns a RunReport or raises one of the TweetParseError
\* kinds, whatever the text: it raises no other exception.
C12_OnlyTweetParseErrors ==
    \A i \in Parsed :
       parse_tweet(readall.stored[i]).kind \in TweetParseErrors \cup {"RunReport"}

\* C13: a quest id that get_quest_id has returned to a thread is known to
\* get_quest_name, whatever the other threads are doing in the resolver.
C13_ReturnedIdHasName ==
    \A t \in Threads :
       LET th == detector.thread[t]
       IN  th.pc = "returned"
           => \/ th.qid \in DOMAIN quest_reverse_index
              \/ th.qid \in DOMAIN detector.quest_reverse_index[th.inst]

\* C14: get_quest_id is deterministic: the same (chapter, place, year) gets the
\* same id on the first call, on later calls and from another instance of the
\* same catalog; an exact catalog hit gets the catalog's id whatever the cache
\* holds.
C14_SameIdForSameKey ==
    /\ \A a, b \in detector.issued :
          (a[1] = b[1] /\ a[2] = b[2] /\ a[3] = b[3]) => a[4] = b[4]
    /\ \A a \in detector.issued :
          <<a[1], a[2]>> \in DOMAIN Detector_freequest_db
          => a[4] = Detector_freequest_db[<<a[1], a[2]>>]

\* both instances have resolved the same event quest, one thread has just got
\* it again from a cache, and a catalog quest was resolved as well
C14_Witness ==
    /\ \A i \in Instances : <<"Event", "Stage", 2020>> \in DOMAIN detector.eventquest_cache[i]
    /\ \E t \in Threads :
          LET th == detector.thread[t]
          IN  /\ th.pc = "returned"
              /\ <<th.chapter, th.place, th.year>> = <<"Event", "Stage", 2020>>
    /\ \E a \in detector.issued : a[4] = "F001"
    /\ \E a \in detector.issued : a[1] = "Event" /\ a[2] = "Stage" /\ a[3] = 2021

\* the rows of the catalog
CatalogRows == { catalog.rows[i] : i \in 1 .. Len(catalog.rows) }

\* the bare keys a row registers: chapter and place, the place alone, the
\* quest name alone
BareKeys(fq) ==
    (IF fq.quest # "" /\ fq.quest \notin ambigious_quest THEN {<<fq.quest, "">>} ELSE {})
    \cup (IF fq.place = fq.quest \/ fq.quest \in posterior_in_same_place
          THEN {}
          ELSE {<<fq.chapter, fq.place>>}
               \cup (IF fq.place \notin ambigious THEN {<<fq.place, "">>} ELSE {}))

\* two quests declared to be in one place
SameLocationGroup(a, b) ==
    /\ <<a.chapter, a.place, a.quest>> \in quests_in_same_place
    /\ <<b.chapter, b.place, b.quest>> \in quests_in_same_place
    /\ a.chapter = b.chapter
    /\ a.place = b.place

\* C15: _build_db raises whenever two different quests would register the
\* same bare key, unless they are a declared same-location group: an index
\* that was built holds no bare key of two quests, in whatever order the rows
\* came.
C15_NoBareKeyOfTwoQuests ==
    catalog.status = "built"
    => \A a, b \in CatalogRows :
          (a.id # b.id /\ ~SameLocationGroup(a, b))
          => BareKeys(a) \cap BareKeys(b) = {}

\* the rows of the group are in the catalog
GroupLoaded == \A q \in {"O1", "O2"} : \E fq \in CatalogRows : fq.id = q

\* C16: for a same-location group, the shared keys (chapter and place, the
\* place alone) resolve to the prior quest's id in whatever order the rows
\* came, a lookup that names the posterior quest resolves to the posterior's
\* id, and the group alone never makes the build raise.
C16_SharedKeysGoToPrior ==
    /\ (catalog.status = "raised" /\ catalog.error = "KeyError: has already been registered")
       => \E a, b \in CatalogRows :
             /\ a.id # b.id
             /\ ~SameLocationGroup(a, b)
             /\ BareKeys(a) \cap BareKeys(b) # {}
    /\ (catalog.status = "built" /\ GroupLoaded /\ catalog.lookup.qid # "")
       => LET asked == <<catalog.lookup.chapter, catalog.lookup.place>>
          IN  /\ asked \in {<<"Okeanos", "Islands">>, <<"", "Islands">>}
                 => catalog.lookup.qid = "O1"
              /\ asked \in {<<"Okeanos", "HiddenIsle">>, <<"", "HiddenIsle">>,
                            <<"Okeanos Islands", "HiddenIsle">>}
                 => catalog.lookup.qid = "O2"

\* the posterior row came before the prior one, and the place was looked up
C16_Witness ==
    /\ catalog.status = "built"
    /\ \E i, j \in 1 .. Len(catalog.rows) :
          i < j /\ catalog.rows[i].id = "O2" /\ catalog.rows[j].id = "O1"
    /\ catalog.lookup = [chapter |-> "", place |-> "Islands", qid |-> "O1"]

\* C17: the quest list makes the round trip: after a complete save, setup on
\* the saved all.json does not raise and rebuilds every element of the rule
\* that was saved with its id, chapter, place, is_freequest, since, latest
\* and count.
C17_QuestListRoundTrip ==
    (/\ rule = "questlist"
     /\ phase = "saved"
     /\ lastSave.any
     /\ lastSave.done
     /\ AllKey \in DOMAIN partitions)
    => /\ setupOk(FALSE, storage)
       /\ \A n \in 1 .. Len(quest_dict) :
             \E i \in 1 .. Len(setup(FALSE, storage)) :
                LET e == quest_dict[n]
                    l == setup(FALSE, storage)[i]
                IN  /\ l.quest_id = e.quest_id
                    /\ l.chapter = e.chapter
                    /\ l.place = e.place
                    /\ l.is_freequest = e.is_freequest
                    /\ l.since = e.since
                    /\ l.latest = e.latest
                    /\ l.count = e.count

\* a saved list with a quest counted twice, its latest after its since
C17_Witness ==
    /\ rule = "questlist"
    /\ phase = "saved"
    /\ lastSave.any
    /\ lastSave.done
    /\ Len(setup(FALSE, storage)) = Len(quest_dict)
    /\ \E n \in 1 .. Len(quest_dict) :
          /\ quest_dict[n].count >= 2
          /\ DtOrd(quest_dict[n].since) < DtOrd(quest_dict[n].latest)

\* C18: the parent of rebuild_outputs does not pass the join before every
\* view task it submitted has finished, and a task that raises does not stop
\* the others: the parent passes the join only when they have run to their
\* end too.
C18_JoinAfterEveryTask ==
    rebuilder.pc \in {"joined", "finished"}
    => /\ \A v \in rebuilder.skip : rebuilder.task[v] = "none"
       /\ \A v \in Range(Views) \ rebuilder.skip :
             /\ rebuilder.task[v] \in {"done", "raised"}
             /\ v \in rebuilder.done
             /\ \E i \in 1 .. Len(rebuilder.completed) : rebuilder.completed[i] = v
       /\ rebuilder.not_done = {}

\* the first task to end raised, the four others returned after it, and the
\* parent is past the join
C18_Witness ==
    /\ rebuilder.pc = "finished"
    /\ rebuilder.skip = {}
    /\ Len(rebuilder.completed) = Len(Views)
    /\ rebuilder.task[rebuilder.completed[1]] = "raised"
    /\ \A i \in 2 .. Len(Views) : rebuilder.task[rebuilder.completed[i]] = "done"

\* the Saturday of the seven days that begin at the latest day of weekday
\* start_day on or before the day target
SaturdayOfWindow(target, start_day) ==
    LET begin == CHOOSE w \in target - 6 .. target : weekday(w) = start_day
    IN  CHOOSE d \in begin .. begin + 6 : weekday(d) = 5

\* C19: for every start_day 0..6 a record with the cohort tag is stored under
\* the ISO date of the Saturday of the seven-day window that begins at the
\* latest start_day weekday on or before the record's date.
C19_KeyIsSaturdayOfWindow ==
    (hrun.status = "ready" /\ hrun.last.tagged)
    => /\ hrun.last.key = DateIso(DayToDate(SaturdayOfWindow(hrun.last.target, hrun.start_day)))
       /\ hrun.last.key \in DOMAIN hrun.partitions

\* C20: match(key) is true exactly when the key denotes a date strictly
\* before the criteria (a key of the criteria itself is not matched), and a
\* key that cannot be converted to a date yields false rather than failing.
C20_MatchIffBefore ==
    skipcall.status = "called"
    => /\ skipcall.outcome.kind = "return"
       /\ skipcall.outcome.value
            = (/\ Convertible(skipcall.key)
               /\ DateOrd(Date(ParseInt(skipcall.key[1]), ParseInt(skipcall.key[2]),
                                IF Len(skipcall.key) = 3 THEN ParseInt(skipcall.key[3]) ELSE 1))
                    < DateOrd(skipcall.criteria))

(***************************************************************************)
(* Skip rules by date and user / quest                                     *)
(***************************************************************************)
\* the keys a user or quest partition can have, and one that no record has
PartitionKeys(r) == { KeyOf(r, report) : report \in Reports } \cup {<<"nobody">>}

\* some record added to the recorder under the key is dated on or after
\* the criteria
AddedOnOrAfter(key) ==
    \E i \in 1 .. Len(input) :
        /\ KeyOf(rule, input[i]) = key
        /\ DateOrd(DateOf(input[i].timestamp)) >= DateOrd(criteria)

\* C21: with the user (quest) rules, match(key) is false exactly for the
\* users (quest ids) with at least one added record dated on or after the
\* criteria and true for every other key; a forced save writes a partition
\* exactly when it received such a record.
C21_SkippedIffNoRecentRecord ==
    rule \in {"user", "quest"}
    => /\ \A key \in PartitionKeys(rule) :
             match(rule, criteria, unmatch, key) = ~AddedOnOrAfter(key)
       /\ (phase = "saved" /\ lastSave.done /\ lastSave.force)
            => \A key \in DOMAIN partitions :
                  (\E fmt \in Range(Formats(rule)) : <<key, fmt>> \in writes)
                     = AddedOnOrAfter(key)

\* a forced save that skipped one partition and wrote another
C21_Witness ==
    /\ rule \in {"user", "quest"}
    /\ phase = "saved" /\ lastSave.done /\ lastSave.force
    /\ \E k1, k2 \in DOMAIN partitions :
          /\ AddedOnOrAfter(k1) /\ <<k1, "json">> \in writes
          /\ ~AddedOnOrAfter(k2) /\ \A fmt \in Range(Formats(rule)) : <<k2, fmt>> \notin writes

(***************************************************************************)
(* parse_tweet on posts with item lines                                    *)
(***************************************************************************)
\* the locations between the brackets: words separated by spaces, the last
\* word a parenthesized group or not, and locations of one word
Locations ==
    { <<"Fuyuki", " ", "X-A">>,
      <<"Hall", " ", "(", "back", ")">>,
      <<"Floor2", " ", "Hall", " ", "(", "back", ")">>,
      <<"Babylonia", " ", "North", " ", "Wall">>,
      <<"X-A">>,
      <<"Nowhere">> }

\* what follows the closing bracket: the rest of the header line and the
\* line after it
RunParts ==
    { << <<"10", Laps>>, <<>> >>,
      << <<"add", Fullwidth(7), Laps>>, <<>> >>,
      << <<"10", " ", Laps>>, <<>> >>,
      << <<"0", Laps>>, <<>> >>,
      << <<"10">>, <<>> >>,
      << <<"10", Laps, " ", "1", Laps, "year">>, <<>> >>,
      << <<>>, <<"3", Laps>> >>,
      << <<Laps>>, <<>> >> }

\* the lines below the header
ItemTexts ==
    { << <<"QP", "3">> >>,
      << <<"card", "12", "(", "+4", ")", "-", "card", "10">> >>,
      << <<"card", "12", "(", "+4", ")">>, <<"bone", "NaN">> >>,
      << <<"bone", "3", "-", "bone", "5">> >>,
      << <<"card", "(", "x3", ")", "12", "-", "card", "2">> >>,
      << <<"thanks">> >>,
      <<>> }

\* the posts parse_tweet is called with
ParseTweets ==
    { TweetCopy(1, "alice",
                << <<LBracket>> \o loc \o <<RBracket>> \o run[1] >>
                  \o (IF run[2] = <<>> THEN <<>> ELSE <<run[2]>>)
                  \o items \o << <<Tag>> >>,
                T1) :
        loc \in Locations, run \in RunParts, items \in ItemTexts }

\* twitter.parse_tweet(tweet)
ParseCall(tweet) ==
    /\ parser.status = "idle"
    /\ parser' = [status |-> "called", tweet |-> tweet, outcome |-> parse_tweet(tweet)]
    /\ UNCHANGED <<earlyVars, errorpage, builder, datefile, skipsave, userdir>>

NextParse == \E tweet \in ParseTweets : ParseCall(tweet)

SpecParse == InitRead /\ [][NextParse]_vars

\* the (item, count) pairs the token loop assigns, in order
ItemEntries(text) ==
    SelectSeq([i \in 1 .. Len(items_with_counts(ItemLines(text))) |->
                 ItemOf(items_with_counts(ItemLines(text))[i])],
              LAMBDA e : e.some)

\* the post reports some item label more than once
Duplicated(text) ==
    \E i, j \in 1 .. Len(ItemEntries(text)) :
        i # j /\ ItemEntries(text)[i].id = ItemEntries(text)[j].id

\* C22: when a post reports the same item label more than once, parsing
\* fails with DuplicatedItemsError instead of keeping one of the quantities.
C22_DuplicateLabelFails ==
    (/\ parser.status = "called"
     /\ Duplicated(parser.tweet.full_text)
     /\ parse_header(parser.tweet, HeaderOf(parser.tweet.full_text)).kind = "RunReport")
    => parser.outcome.kind = "DuplicatedItemsError"

\* the item tokens of the post that end with a parenthesized group and
\* carry a quantity
QualifiedTokens(text) ==
    { tok \in Range(items_with_counts(ItemLines(text))) :
        StripTrail(tok) # tok /\ ItemOf(tok).some /\ ItemOf(tok).count # "NaN" }

\* the item tokens of the post without such a group
PlainTokens(text) ==
    { tok \in Range(items_with_counts(ItemLines(text))) : StripTrail(tok) = tok }

\* C23: the trailing parenthesized qualifier of an item token is cut and
\* appended to the item name: in a post without repeated labels the quantity
\* is filed under name + qualifier, and the plain name has an entry only when
\* a plain token reports it.
C23_QualifierKeptInName ==
    (/\ parser.status = "called" /\ parser.outcome.kind = "RunReport"
     /\ ~Duplicated(parser.tweet.full_text))
    => \A tok \in QualifiedTokens(parser.tweet.full_text) :
          LET name == ItemOf(tok).id
              qualifier == Join(SubSeq(tok, Len(StripTrail(tok)) + 1, Len(tok)))
          IN  /\ \E e \in Range(parser.outcome.items) :
                    e.id = name \o qualifier /\ e.count = ItemOf(tok).count
              /\ (\E e \in Range(parser.outcome.items) : e.id = name)
                   => \E plain \in PlainTokens(parser.tweet.full_text) :
                         ItemOf(plain).some /\ ItemOf(plain).id = name

\* the location between the brackets of the post's header
LocationOf(text) ==
    LET header == HeaderOf(text).header
    IN  SubSeq(header,
               (CHOOSE i \in Positions(header, LBracket) :
                   \A j \in Positions(header, LBracket) : i <= j) + 1,
               (CHOOSE i \in Positions(header, RBracket) :
                   \A j \in Positions(header, RBracket) : i <= j) - 1)

\* the word is a parenthesized qualifier
IsQualifier(word) == Len(word) >= 1 /\ word[1] = "(" /\ word[Len(word)] = ")"

\* C24: whenever the location contains a space and its last word is a
\* parenthesized qualifier, place is the preceding word with the qualifier
\* attached, for every number of words; otherwise place is the last word and
\* chapter the rest joined by spaces.
C24_QualifierJoinsPlace ==
    (/\ parser.status = "called"
     /\ parser.outcome.kind = "RunReport"
     /\ Positions(LocationOf(parser.tweet.full_text), " ") # {})
    => LET words == SplitSpace(LocationOf(parser.tweet.full_text))
           n == Len(words)
       IN  IF IsQualifier(words[n])
           THEN /\ parser.outcome.place = Join(words[n - 1]) \o Join(words[n])
                /\ parser.outcome.chapter = JoinSpace(SubSeq(words, 1, n - 2))
           ELSE /\ parser.outcome.place = Join(words[n])
                /\ parser.outcome.chapter = JoinSpace(SubSeq(words, 1, n - 1))

\* the positions of the header after its closing bracket
AfterBracket(header) ==
    { i \in 1 .. Len(header) :
        \E e \in Positions(header, RBracket) :
           (\A j \in Positions(header, RBracket) : e <= j) /\ e < i }

\* the counter words after the closing bracket
Markers(header) == { i \in AfterBracket(header) : header[i] = Laps }

\* the runs of digits between the closing bracket and the last counter word
DigitsBefore(header) ==
    { i \in AfterBracket(header) : IsDigits(header[i]) /\ i < Max(Markers(header)) }

MaxErrors == 2

\* ParseErrorTweet(tweet, error_message), the object oid
ParseErrorTweet(oid, tweet, error_message) ==
    [oid |-> oid, tweet_id |-> tweet.tweet_id, screen_name |-> tweet.screen_name,
     full_text |-> tweet.full_text, error_message |-> error_message,
     created_at |-> tweet.created_at]

\* the tweets that failed to parse, with the message of the failure
ErrorTweets ==
    { <<TweetCopy(2, "alice", NoHeaderText, T2), "HeaderNotFoundError">>,
      <<TweetCopy(6, "bob", OneWordText, T2), "ValueError">>,
      <<TweetCopy(7, "carol", NoHeaderText, T3), "HeaderNotFoundError">> }

\* ParseErrorTweet.as_dict
ParseErrorTweet_as_dict(tw) ==
    [id |-> tw.tweet_id, screen_name |-> tw.screen_name, full_text |-> tw.full_text,
     error_message |-> tw.error_message, created_at |-> isoformat(tw.created_at)]

\* ParseErrorTweet.retrieve: a new object, or None for an inappropriate text
ParseErrorTweet_retrieve(oid, data) ==
    IF appropriate_tweet(data.full_text)
    THEN [oid |-> oid, tweet_id |-> data.id, screen_name |-> data.screen_name,
          full_text |-> data.full_text, error_message |-> data.error_message,
          created_at |-> fromisoformat(data.created_at)]
    ELSE [oid |-> 0, tweet_id |-> NoTweet]

\* the objects retrieved from the entries of error.json, None left out
original_tweets(original) ==
    SelectSeq([i \in 1 .. Len(original) |-> ParseErrorTweet_retrieve(100 + i, original[i])],
              LAMBDA tw : tw.tweet_id # NoTweet)

\* copy.deepcopy(original): equal fields, new objects
deepcopy(original) == [i \in 1 .. Len(original) |-> [original[i] EXCEPT !.oid = 200 + i]]

\* list == list of objects of a class without __eq__: the same objects
ListEq(a, b) == Len(a) = Len(b) /\ \A i \in 1 .. Len(a) : a[i].oid = b[i].oid

RECURSIVE SortByTweetId(_)
\* list.sort(key=lambda e: e.tweet_id), stable
SortByTweetId(list) ==
    IF list = <<>> THEN <<>>
    ELSE LET sorted == SortByTweetId(SubSeq(list, 1, Len(list) - 1))
             e == list[Len(list)]
             n == Cardinality({ i \in 1 .. Len(sorted) : sorted[i].tweet_id <= e.tweet_id })
         IN  SubSeq(sorted, 1, n) \o <<e>> \o SubSeq(sorted, n + 1, Len(sorted))

\* list.reverse()
Reverse(list) == [i \in 1 .. Len(list) |-> list[Len(list) + 1 - i]]

\* ErrorMerger._make_index
ErrorMerger_make_index(original) == { original[i].tweet_id : i \in 1 .. Len(original) }

\* ErrorMerger.merge
ErrorMerger_merge(errors, original) ==
    Reverse(SortByTweetId(
        deepcopy(original)
        \o SelectSeq(errors, LAMBDA err : err.tweet_id \notin ErrorMerger_make_index(original))))

\* JSONErrorPageProcessor.dump
JSONErrorPage(errors) == [i \in 1 .. Len(errors) |-> ParseErrorTweet_as_dict(errors[i])]

\* HTMLErrorPageProcessor.dump: the template renders each tweet
HTMLErrorPage(errors) ==
    [i \in 1 .. Len(errors) |-> <<errors[i].tweet_id, errors[i].screen_name,
                                   errors[i].error_message>>]

\* one format's turn in ErrorPageRecorder.save: is the artifact written
ErrorPageWritten(errors, original, force) ==
    ~(~force /\ ListEq(ErrorMerger_merge(errors, original_tweets(original)),
                        original_tweets(original)))

\* a new ErrorPageRecorder over the error directory
ErrNew ==
    /\ errorpage.status \in {"idle", "saved"}
    /\ errorpage' = [errorpage EXCEPT !.status = "ready", !.errors = <<>>,
                                      !.writes = {}, !.before = <<>>]
    /\ UNCHANGED <<earlyVars, parser, builder, datefile, skipsave, userdir>>

\* ErrorPageRecorder.add_error
ErrAdd(e) ==
    /\ errorpage.status = "ready"
    /\ Len(errorpage.errors) < MaxErrors
    /\ \A i \in 1 .. Len(errorpage.errors) : errorpage.errors[i].tweet_id # e[1].tweet_id
    /\ errorpage' = [errorpage EXCEPT
          !.errors = Append(@, ParseErrorTweet(Len(@) + 1, e[1], e[2]))]
    /\ UNCHANGED <<earlyVars, parser, builder, datefile, skipsave, userdir>>

\* ErrorPageRecorder.save(force, ignore_original)
ErrSave(force, ignore_original) ==
    /\ errorpage.status = "ready"
    /\ errorpage' =
         IF Len(errorpage.errors) = 0
         THEN [errorpage EXCEPT !.status = "saved", !.before = errorpage.json,
                                !.force = force, !.ignore_original = ignore_original]
         ELSE [status |-> "saved",
               errors |-> errorpage.errors,
               json |-> IF ErrorPageWritten(errorpage.errors,
                                            IF ignore_original THEN <<>> ELSE errorpage.json,
                                            force)
                        THEN JSONErrorPage(ErrorMerger_merge(
                                errorpage.errors,
                                original_tweets(IF ignore_original THEN <<>>
                                                ELSE errorpage.json)))
                        ELSE errorpage.json,
               html |-> IF ErrorPageWritten(errorpage.errors,
                                            IF ignore_original THEN <<>> ELSE errorpage.json,
                                            force)
                        THEN HTMLErrorPage(ErrorMerger_merge(
                                errorpage.errors,
                                original_tweets(IF ignore_original THEN <<>>
                                                ELSE errorpage.json)))
                        ELSE errorpage.html,
               before |-> errorpage.json,
               writes |-> IF ErrorPageWritten(errorpage.errors,
                                              IF ignore_original THEN <<>> ELSE errorpage.json,
                                              force)
                          THEN {"json", "html"} ELSE {},
               force |-> force, ignore_original |-> ignore_original]
    /\ UNCHANGED <<earlyVars, parser, builder, datefile, skipsave, userdir>>

NextErrors ==
    \/ ErrNew
    \/ \E e \in ErrorTweets : ErrAdd(e)
    \/ \E force \in BOOLEAN, ignore_original \in BOOLEAN : ErrSave(force, ignore_original)

SpecErrors == InitRead /\ [][NextErrors]_vars

\* C26: a save with force=false and ignore_original=false writes no artifact
\* when every error tweet added in this run is already present, by tweet_id,
\* in the error JSON published before; saving the same errors twice writes
\* nothing the second time.
C26_NoWriteWhenAllPresent ==
    (/\ errorpage.status = "saved"
     /\ ~errorpage.force /\ ~errorpage.ignore_original
     /\ \A i \in 1 .. Len(errorpage.errors) :
           \E j \in 1 .. Len(errorpage.before) :
              errorpage.before[j].id = errorpage.errors[i].tweet_id)
    => errorpage.writes = {}

(***************************************************************************)
(* main.command_build against the report server                            *)
(***************************************************************************)
\* the most build runs
MaxBuilds == 3

\* the reports that users post to the report server
BuildReports ==
    { RunReport("r1", NoTweet, "alice", "Fuyuki", "X-A", 10, T1),
      RunReport("r2", NoTweet, "bob",   "Fuyuki", "X-A", 20, T2),
      RunReport("r3", NoTweet, "bob",   "Event",  "Final", 30, T3),
      RunReport("r4", NoTweet, "alice", "Fuyuki", "X-A", 40, T3) }

\* GraphQLClient.list_reports(timestamp): the reports with timestamp >= since,
\* sorted by timestamp
list_reports(server, since) ==
    SelectSeq(server, LAMBDA r : DtOrd(r.timestamp) >= DtOrd(since))

\* max(reports, key=lambda e: e.timestamp): the first of the newest
newest_report(reports) ==
    reports[Min({ i \in 1 .. Len(reports) :
                    \A j \in 1 .. Len(reports) :
                       DtOrd(reports[j].timestamp) <= DtOrd(reports[i].timestamp) })]

\* render_all(reports, rebuild=False) on the quest directory: the quest-list
\* Recorder is set up from all.json, given the reports and saved
render_all_questlist(st, reports) ==
    PutFiles(st,
             SaveWrites(AddAll(Recorder("questlist", FALSE, Date(2000, 1, 1), st), reports),
                        st, render_all(FALSE).force, render_all(FALSE).ignore_original,
                        AddAll(Recorder("questlist", FALSE, Date(2000, 1, 1), st),
                               reports).pkeys))

\* a user posts a report; the server lists reports by timestamp
BuildPost(report) ==
    /\ \A i \in 1 .. Len(builder.server) :
          /\ builder.server[i].report_id # report.report_id
          /\ DtOrd(builder.server[i].timestamp) <= DtOrd(report.timestamp)
    /\ builder' = [builder EXCEPT !.server = Append(@, report)]
    /\ UNCHANGED <<earlyVars, parser, errorpage, datefile, skipsave, userdir>>

\* the reports command_build receives, and whether it goes on to render
build_step(b, reports) ==
    IF \/ Len(reports) = 0
       \/ Len(reports) = 1 /\ b.last.any /\ b.last.report_id = reports[1].report_id
    THEN [b EXCEPT !.status = "ran", !.builds = @ + 1]
    ELSE [status |-> "ran", server |-> b.server,
          storage |-> render_all_questlist(b.storage, reports),
          observed |-> b.observed \cup { reports[i].report_id : i \in 1 .. Len(reports) },
          builds |-> b.builds + 1,
          last |-> [any |-> TRUE, report_id |-> newest_report(reports).report_id,
                    timestamp |-> newest_report(reports).timestamp]]

\* main.command_build without --since
Build ==
    /\ builder.builds < MaxBuilds
    /\ setupOk(FALSE, builder.storage)
    /\ builder' = build_step(builder, list_reports(builder.server, builder.last.timestamp))
    /\ UNCHANGED <<earlyVars, parser, errorpage, datefile, skipsave, userdir>>

NextBuild ==
    \/ \E report \in BuildReports : BuildPost(report)
    \/ Build

SpecBuild == InitRead /\ [][NextBuild]_vars

\* the report ids the build runs received for the quest qid
ObservedFor(qid) ==
    { r \in BuildReports : r.report_id \in builder.observed /\ quest_id(r) = qid }

\* C27: across successive non-rebuild build runs the published count of a
\* quest equals the number of distinct report ids ever received for it, even
\* though a run can receive the last seen report again.
C27_CountIsDistinctReports ==
    /\ \A i \in 1 .. Len(FileOf(builder.storage, AllKey, "json")) :
          FileOf(builder.storage, AllKey, "json")[i].count
             = Cardinality(ObservedFor(FileOf(builder.storage, AllKey, "json")[i].id))
    /\ \A r \in BuildReports :
          r.report_id \in builder.observed
          => \E i \in 1 .. Len(FileOf(builder.storage, AllKey, "json")) :
                FileOf(builder.storage, AllKey, "json")[i].id = quest_id(r)

(***************************************************************************)
(* merging.merge_into_datefile beside TweetRepository.append_tweets        *)
(***************************************************************************)
\* the most calls of append_tweets
MaxAppends == 2

\* merge_into_datefile gives up below this number of merged tweets
MinDateFileSize == 10

\* the part file keys of the date, after the prefix YYYYMMDD_
PartKeys == {"000000", "101500", "183000"}

\* the order of the part file keys
PartRank == ("000000" :> 0) @@ ("101500" :> 1) @@ ("183000" :> 2)

\* the part files a listing returns, in the order of their keys
RECURSIVE ListParts(_)
ListParts(keys) ==
    IF keys = {} THEN <<>>
    ELSE LET k == CHOOSE x \in keys : \A y \in keys : PartRank[x] <= PartRank[y]
         IN  <<k>> \o ListParts(keys \ {k})

\* merge_into_datefile up to fileStorage.streams: the date file exists, or
\* the part files are listed for reading
MergeBegin ==
    /\ datefile.pc = "idle"
    /\ datefile' = IF datefile.date.exists
                   THEN [datefile EXCEPT !.pc = "done"]
                   ELSE [datefile EXCEPT !.pc = "reading",
                                          !.streams = ListParts(DOMAIN datefile.parts)]
    /\ UNCHANGED <<earlyVars, parser, errorpage, builder, skipsave, userdir>>

\* _merge: json.load of the next stream
MergeRead ==
    /\ datefile.pc = "reading"
    /\ datefile.streams # <<>>
    /\ datefile' = [datefile EXCEPT
          !.streams = Tail(@),
          !.merged = IF Head(datefile.streams) \in DOMAIN datefile.parts
                     THEN @ \cup datefile.parts[Head(datefile.streams)] ELSE @]
    /\ UNCHANGED <<earlyVars, parser, errorpage, builder, skipsave, userdir>>

\* the size test and the write of the date file
MergeWrite ==
    /\ datefile.pc = "reading"
    /\ datefile.streams = <<>>
    /\ datefile' = IF Cardinality(datefile.merged) < MinDateFileSize
                   THEN [datefile EXCEPT !.pc = "done"]
                   ELSE [datefile EXCEPT !.pc = "written",
                            !.date = [exists |-> TRUE, tweets |-> datefile.merged]]
    /\ UNCHANGED <<earlyVars, parser, errorpage, builder, skipsave, userdir>>

\* the existence check and fileStorage.list of the parts to delete
MergeList ==
    /\ datefile.pc = "written"
    /\ datefile' = IF ~datefile.date.exists
                   THEN [datefile EXCEPT !.pc = "done"]
                   ELSE [datefile EXCEPT !.pc = "deleting",
                                          !.list = ListParts(DOMAIN datefile.parts)]
    /\ UNCHANGED <<earlyVars, parser, errorpage, builder, skipsave, userdir>>

\* fileStorage.delete of the next part; the tweets it held are recorded
MergeDelete ==
    /\ datefile.pc = "deleting"
    /\ datefile' =
         IF datefile.list = <<>> THEN [datefile EXCEPT !.pc = "done"]
         ELSE [datefile EXCEPT
                 !.list = Tail(@),
                 !.deleted = IF Head(datefile.list) \in DOMAIN datefile.parts
                             THEN @ \cup datefile.parts[Head(datefile.list)] ELSE @,
                 !.parts = [k \in DOMAIN datefile.parts \ {Head(datefile.list)} |->
                              datefile.parts[k]]]
    /\ UNCHANGED <<earlyVars, parser, errorpage, builder, skipsave, userdir>>

\* append_tweets(key, tweets) up to json.load: the stream holds the file
AppendOpen(key) ==
    /\ datefile.w_pc = "idle"
    /\ datefile.appended < MaxAppends
    /\ datefile' = [datefile EXCEPT
          !.w_pc = "open", !.w_key = key,
          !.w_loaded = IF key \in DOMAIN datefile.parts THEN datefile.parts[key] ELSE {},
          !.w_tweets = {13 + datefile.appended},
          !.appended = @ + 1]
    /\ UNCHANGED <<earlyVars, parser, errorpage, builder, skipsave, userdir>>

\* append_tweets from json.dumps on: the file is written with the loaded
\* and the new tweets
AppendClose ==
    /\ datefile.w_pc = "open"
    /\ datefile' = [datefile EXCEPT
          !.w_pc = "idle",
          !.parts = [k \in DOMAIN datefile.parts \cup {datefile.w_key} |->
                       IF k = datefile.w_key
                       THEN datefile.w_loaded \cup datefile.w_tweets
                       ELSE datefile.parts[k]]]
    /\ UNCHANGED <<earlyVars, parser, errorpage, builder, skipsave, userdir>>

NextDateFile ==
    \/ MergeBegin
    \/ MergeRead
    \/ MergeWrite
    \/ MergeList
    \/ MergeDelete
    \/ \E key \in PartKeys : AppendOpen(key)
    \/ AppendClose

SpecDateFile == InitRead /\ [][NextDateFile]_vars

\* C28: while merge_into_datefile runs beside a writer that creates or
\* appends a part file of the date, every tweet held by a part file at the
\* moment it is deleted is contained in the merged date file.
C28_DeletedTweetsAreMerged ==
    \A tw \in datefile.deleted : datefile.date.exists /\ tw \in datefile.date.tweets

(***************************************************************************)
(* The Recorders of render_all that are paired with SkipSaveRuleByDate     *)
(***************************************************************************)
\* the most records one of these Recorders is given
MaxSkipAdds == 2

\* calendar.THURSDAY, the start_day render_all gives PartitioningRuleBy1HRun
THURSDAY == 3

\* the partitioning rules render_all pairs with SkipSaveRuleByDate
DateRules == {"date", "month", "1hrun"}

\* the days of the records and of the criteria, as day numbers of July 2023
SkipDays == 0 .. 8
SkipCriterias == {1, 3, 6}

\* the partition key of a record of the day target_date, or none
DateRuleKey(r, target_date, tagged) ==
    CASE r = "date"  -> [some |-> TRUE, key |-> DateIso(DayToDate(target_date))]
      [] r = "month" -> [some |-> TRUE, key |-> MonthFmt(DayToDate(target_date))]
      [] r = "1hrun" ->
           [some |-> tagged,
            key |-> DateIso(DayToDate(get_week_start_day(target_date, THURSDAY)
                                       + (5 - THURSDAY)))]

\* Recorder(partitioningRule, SkipSaveRuleByDate(skip_target_date), ...)
SkipSaveNew(r, crit) ==
    /\ skipsave.status \in {"idle", "saved"}
    /\ skipsave' = [status |-> "ready", rule |-> r, criteria |-> crit,
                    partitions |-> <<>>, added |-> 0, skipped |-> {}, saved |-> {}]
    /\ UNCHANGED <<earlyVars, parser, errorpage, builder, datefile, userdir>>

\* Recorder.add(report): dispatch; scan_report does nothing
SkipSaveAdd(target_date, tagged) ==
    /\ skipsave.status = "ready"
    /\ skipsave.added < MaxSkipAdds
    /\ skipsave' = [skipsave EXCEPT
          !.added = @ + 1,
          !.partitions = IF DateRuleKey(skipsave.rule, target_date, tagged).some
                         THEN AppendTo(@, DateRuleKey(skipsave.rule, target_date, tagged).key,
                                       target_date)
                         ELSE @]
    /\ UNCHANGED <<earlyVars, parser, errorpage, builder, datefile, userdir>>

\* Recorder.save: each partition is skipped when the rule matches its key
SkipSaveSave ==
    /\ skipsave.status = "ready"
    /\ skipsave' = [skipsave EXCEPT
          !.status = "saved",
          !.skipped = { key \in DOMAIN skipsave.partitions :
                          /\ Len(skipsave.partitions[key]) # 0
                          /\ SkipSaveRuleByDate_match(DayToDate(skipsave.criteria), key) },
          !.saved = { key \in DOMAIN skipsave.partitions :
                        /\ Len(skipsave.partitions[key]) # 0
                        /\ ~SkipSaveRuleByDate_match(DayToDate(skipsave.criteria), key) }]
    /\ UNCHANGED <<earlyVars, parser, errorpage, builder, datefile, userdir>>

NextSkipSave ==
    \/ \E r \in DateRules, crit \in SkipCriterias : SkipSaveNew(r, crit)
    \/ \E target_date \in SkipDays, tagged \in BOOLEAN : SkipSaveAdd(target_date, tagged)
    \/ SkipSaveSave

SpecSkipSave == InitRead /\ [][NextSkipSave]_vars

\* C29: with SkipSaveRuleByDate(criteria) as render_all configures it, a
\* partition that received at least one record dated on or after criteria
\* is never skipped at save, for daily, monthly and 1-hour-run-week keys.
C29_RecentPartitionNotSkipped ==
    skipsave.status = "saved"
    => \A key \in DOMAIN skipsave.partitions :
          (\E i \in 1 .. Len(skipsave.partitions[key]) :
              skipsave.partitions[key][i] >= skipsave.criteria)
          => key \notin skipsave.skipped

(***************************************************************************)
(* The user output directory of render_all: the per-user Recorder and the  *)
(* user-list Recorder share basedir contents/user                          *)
(***************************************************************************)
\* the most reports of one run and the most runs
MaxUserAdds == 2
MaxUserRuns == 2

\* the reporters' handles
Handles == {"alice", "bob", "all"}

\* the file extensions of the formats of the two Recorders
UserExts == <<"json", "csv", "html">>
UserListExts == <<"json", "html">>

\* the reports of the run filed under reporter by PartitioningRuleByUser
UserPartition(reports, reporter) ==
    { reports[i].id : i \in { j \in 1 .. Len(reports) : reports[j].reporter = reporter } }

\* the elements PartitioningRuleByUserList files under 'all'
UserListPartition(reports) == { reports[i].reporter : i \in 1 .. Len(reports) }

\* _get_original_json(key): the entries of key.json, whoever wrote it
UserDirOriginal(dir, key) ==
    IF <<key, "json">> \in DOMAIN dir THEN dir[<<key, "json">>].entries ELSE {}

\* one partition's turn in Recorder.save: the directory after it, with the
\* files that were read or replaced as artifacts of the other Recorder
UserDirPut(ud, by, key, exts, entries) ==
    LET original == UserDirOriginal(ud.dir, key)
        merged == original \cup entries
        files == { <<key, exts[i]>> : i \in 1 .. Len(exts) }
        foreign == { f \in DOMAIN ud.dir : ud.dir[f].by # by }
    IN  [ud EXCEPT
           !.clash = @ \cup ({<<key, "json">>} \cap foreign)
                      \cup (IF merged # original THEN files \cap foreign ELSE {}),
           !.dir = IF merged = original THEN @
                   ELSE [f \in DOMAIN ud.dir \cup files |->
                           IF f \in files THEN [by |-> by, entries |-> merged]
                           ELSE ud.dir[f]]]

RECURSIVE UserDirSave(_, _, _)
\* Recorder.save of the per-user Recorder over the reporters of the run
UserDirSave(ud, reports, reporters) ==
    IF reporters = {} THEN ud
    ELSE LET who == CHOOSE h \in reporters : TRUE
         IN  UserDirSave(UserDirPut(ud, "user", who, UserExts, UserPartition(reports, who)),
                         reports, reporters \ {who})

\* a report of the run, from the reporter handle
UserDirAdd(handle) ==
    /\ userdir.status \in {"idle", "collecting"}
    /\ userdir.runs < MaxUserRuns
    /\ Len(userdir.reports) < MaxUserAdds
    /\ userdir' = [userdir EXCEPT
          !.status = "collecting",
          !.reports = Append(@, [id |-> "r" \o ToString(userdir.runs) \o "-" \o ToString(Len(@)),
                                 reporter |-> handle])]
    /\ UNCHANGED <<earlyVars, parser, errorpage, builder, datefile, skipsave>>

\* render_all on contents/user: recorder_byuser and recorder_byuserlist are
\* given the reports and saved, in this order
UserDirRender ==
    /\ userdir.status = "collecting"
    /\ userdir' =
         [UserDirPut(UserDirSave(userdir, userdir.reports,
                                 UserListPartition(userdir.reports)),
                     "userlist", AllKey[1], UserListExts,
                     UserListPartition(userdir.reports))
            EXCEPT !.status = "idle", !.reports = <<>>, !.runs = @ + 1]
    /\ UNCHANGED <<earlyVars, parser, errorpage, builder, datefile, skipsave>>

NextUserDir ==
    \/ \E handle \in Handles : UserDirAdd(handle)
    \/ UserDirRender

SpecUserDir == InitRead /\ [][NextUserDir]_vars

\* C30: in the user output directory no per-user partition key equals the
\* key 'all' of the user-list aggregate, for every reporter handle; no file
\* of one Recorder is read or replaced as a file of the other.
C30_UserKeyNeverAll ==
    /\ \A i \in 1 .. Len(userdir.reports) :
          KeyOf("user", userdir.reports[i]) # AllKey
    /\ userdir.clash = {}
====
